---- MODULE Spec2Model ----
(***************************************************************************)
(* Model of the task-lifecycle engine of ocp-traffic-flow-tests            *)
(* (src/task.py): the TaskOperation state machine with its lock, its       *)
(* backing thread and concurrent callers of start()/finish(), and the      *)
(* Task-level result store with Task.aggregate_output.                     *)
(***************************************************************************)
EXTENDS Integers, Sequences, FiniteSets, TLC

(* ------------------------------ bounds --------------------------------- *)
\* number of start()/finish() calls made on the operation in one run
MaxCalls == 3
\* number of thread objects that can be created for the operation
MaxThreads == 2
\* number of distinct BaseOutput payloads a thread action may return
NumResults == 2
\* number of tasks handed to one aggregator
NumTasks == 2
\* number of aggregate_output calls made on one aggregator
MaxAggCalls == 3

\* The threads that call start() and finish() on the operation: the thread
\* that drives the task, and one concurrent caller (the "finish is called
\* concurrently" of start()'s contract).  Either may make either call.
Callers == {1, 2}
Threads == 1..MaxThreads
Tasks == 1..NumTasks

(* --------------------------- _OperationState --------------------------- *)
\* The enum members with the values the source gives them: NEW, STARTING and
\* RUNNING carry a trailing comma and are therefore 1-tuples, STOPPING and
\* STOPPED are plain integers.
ST_NEW == "NEW"
STARTING == "STARTING"
RUNNING == "RUNNING"
STOPPING == "STOPPING"
STOPPED == "STOPPED"
OperationState == {ST_NEW, STARTING, RUNNING, STOPPING, STOPPED}

StateValue(s) ==
    CASE s = ST_NEW -> [tuple |-> TRUE, n |-> 1]
      [] s = STARTING -> [tuple |-> TRUE, n |-> 2]
      [] s = RUNNING -> [tuple |-> TRUE, n |-> 3]
      [] s = STOPPING -> [tuple |-> FALSE, n |-> 4]
      [] s = STOPPED -> [tuple |-> FALSE, n |-> 5]

\* Python's ">" on two enum values: defined on two tuples (lexicographic) and
\* on two ints, a TypeError between an int and a tuple.
ValueGreater(a, b) ==
    IF a.tuple = b.tuple
    THEN IF a.n > b.n THEN "true" ELSE "false"
    ELSE "TypeError"

\* position of a state in the documented order NEW < ... < STOPPED
Rank(s) ==
    CASE s = ST_NEW -> 1
      [] s = STARTING -> 2
      [] s = RUNNING -> 3
      [] s = STOPPING -> 4
      [] s = STOPPED -> 5

(* ------------------------------- values -------------------------------- *)
\* Values that flow through the operation.  tag "unset": the attribute
\* _intermediate_result does not exist; "raw": a value returned by the thread
\* action (isOutput: it is a BaseOutput); "collected": collect_action(r);
\* "collected0": collect_action(); "failure": the BaseOutput(success=False)
\* built by finish() when no thread result exists; "none": Python None.
Val(tag, v, isOutput) == [tag |-> tag, v |-> v, isOutput |-> isOutput]
Unset == Val("unset", 0, FALSE)
NoneVal == Val("none", 0, FALSE)
\* what a thread action may return: one of NumResults BaseOutput values, or a
\* value that is no BaseOutput
RawResults == {Val("raw", v, TRUE) : v \in 1..NumResults} \cup {Val("raw", 0, FALSE)}
FailureOutput == Val("failure", 0, TRUE)
\* collect_action is an opaque callback typed to return a BaseOutput; its
\* result is a function of its argument.
CollectAction1(r) == Val("collected", r.v, TRUE)
CollectAction0 == Val("collected0", 0, TRUE)

NoError == "none"
NoOwner == <<"none", 0>>
CallerId(c) == <<"caller", c>>
ThreadId(t) == <<"thread", t>>

VARIABLES
    cfg,            \* the constructor arguments (which action slots are given)
    constructed,    \* "pending" | "ok" | "failed" (ValueError)
    opState,        \* TaskOperation._state
    opThread,       \* TaskOperation._thread: 0 = None, else a thread id
    opResult,       \* TaskOperation._intermediate_result
    opLock,         \* owner of TaskOperation._lock
    procAlive,      \* FALSE once os._exit() was called
    tpc,            \* position of each thread in _run_thread_action
    tres,           \* local "result" of each thread
    cpc,            \* position of each caller in start()/finish()
    cop,            \* the call each caller is in / last made
    ctimeout,       \* finish(): the timeout argument
    cth,            \* finish(): local th
    cinter,         \* finish(): local intermediate_result
    cresult,        \* finish(): local result
    cout,           \* Output returned by the caller's last finish()
    cerr,           \* exception raised by the caller's last call
    ncalls,         \* calls made so far
    hist,           \* history counters and per-call observations
    taskCls,        \* per task: what its execution operation returns, and
                    \* whether its class overrides _aggregate_output
    taskOp,         \* per task: Task._task_operation ("none" = None)
    taskResult,     \* per task: Task._result
    lastCall,       \* the last Task-level call: its task, the exception it
                    \* raised, and the aggregator as it was when it was made
    flow_test,      \* TftAggregateOutput.flow_test
    plugins,        \* TftAggregateOutput.plugins
    aggHist         \* counters of the aggregate_output calls

aggVars == <<taskCls, taskOp, taskResult, lastCall, flow_test, plugins, aggHist>>

VARIABLES
    clusterMode,    \* ts.cfg_descr.tc.mode
    taskMade,       \* per task: "pending" | "made" | "ValueError" (Task.__init__)
    taskTenant,     \* per task: the tenant argument of Task.__init__
    initPc,         \* per task: how far ServerTask.initialize() has come
    svcLog,         \* the oc commands issued by the create_*_service calls
    lastApply,      \* the last "oc apply" of a service and its result
    lastCmd         \* the last call of the server setup operation's thread
                    \* action or cancel action, and what it did

setupVars == <<clusterMode, taskMade, taskTenant, initPc, svcLog, lastApply,
               lastCmd>>

VARIABLE exitStatus \* whether the process has exited, and with which status

VARIABLES
    nmon,           \* len(monitors) of the run
    dpc,            \* the driver's position in _run / _run_tests
    called,         \* per participant: the last call the driver made on it
    spc,            \* the server's exec thread
    cpos,           \* the client thread's position in its steps, 0 = not started
    mpc,            \* per monitor: the position of its stat thread
    ticket,         \* per thread: its arrival number at the barrier, 0 = none
    sync,           \* SyncManager: the two latches, the barrier's size and count
    runHist         \* what has been observed of the run so far

driverVars == <<nmon, dpc, called, spc, cpos, mpc, ticket, sync, runHist>>

VARIABLES
    pwd,            \* measure-power run: the driver's position
    pwt,            \* measure-power run: per thread its position, its
                    \* arrival number at the barrier and its iteration count
    pwr             \* measure-power run: per task its operation, the
                    \* intermediate result and Task._result

powerVars == <<pwd, pwt, pwr>>

opVars == <<cfg, constructed, opState, opThread, opResult, opLock, procAlive,
            tpc, tres, cpc, cop, ctimeout, cth, cinter, cresult, cout, cerr,
            ncalls, hist>>

\* what the actions of one part of the program leave alone
nonOpVars == <<aggVars, setupVars, driverVars, powerVars, exitStatus>>
nonAggVars == <<opVars, setupVars, driverVars, powerVars, exitStatus>>
nonSetupVars == <<opVars, aggVars, driverVars, powerVars>>
nonDriverVars == <<opVars, setupVars, powerVars, taskCls, taskOp, taskResult,
                   lastCall, aggHist>>
nonPowerVars == <<opVars, setupVars, taskCls, taskOp, taskResult, lastCall,
                  aggHist, nmon, dpc, called, spc, cpos, mpc, ticket, runHist>>

(* ----------------------------- construction ---------------------------- *)
Args == [thread_action : BOOLEAN, collect_action : BOOLEAN,
         cancel_action : BOOLEAN, wait_ready : BOOLEAN]

\* faulty variant of InitCheck: a cancel_action without a thread_action passes
InitCheck_NoCancelCheck(a) ==
    IF ~a.thread_action /\ ~a.collect_action THEN "ValueError" ELSE "ok"

\* TaskOperation.__init__: the two argument checks; "ok" or the error raised
InitCheck(a) ==
    IF ~a.thread_action /\ ~a.collect_action THEN "ValueError"
    ELSE IF a.cancel_action /\ ~a.thread_action THEN "ValueError"
    ELSE "ok"

\* what is recorded about a caller's current (or last) call: the state its
\* precondition check saw, whether some finish() had already returned an Output
\* when the call was made, how often it invoked the cancel action, how many
\* joins it made after the last cancel, and whether its access_thread()
\* created the thread
NoObs == [checked |-> "none", priorFinish |-> FALSE, cancels |-> 0,
          joins |-> 0, spawned |-> FALSE]

HistInit ==
    [spawned |-> 0, actionRuns |-> 0, writes |-> 0, collects |-> 0,
     cancels |-> 0, waitReadys |-> 0, waitReadyDone |-> 0,
     finishReturned |-> FALSE,
     actionRaised |-> FALSE,
     timedOut |-> FALSE,
     obs |-> [c \in Callers |-> NoObs]]

OpInit ==
    /\ cfg \in Args
    /\ constructed = "pending"
    /\ opState = ST_NEW
    /\ opThread = 0
    /\ opResult = Unset
    /\ opLock = NoOwner
    /\ procAlive = TRUE
    /\ tpc = [t \in Threads |-> "unborn"]
    /\ tres = [t \in Threads |-> Unset]
    /\ cpc = [c \in Callers |-> "idle"]
    /\ cop = [c \in Callers |-> "none"]
    /\ ctimeout = [c \in Callers |-> "None"]
    /\ cth = [c \in Callers |-> 0]
    /\ cinter = [c \in Callers |-> Unset]
    /\ cresult = [c \in Callers |-> NoneVal]
    /\ cout = [c \in Callers |-> NoneVal]
    /\ cerr = [c \in Callers |-> NoError]
    /\ ncalls = 0
    /\ hist = HistInit

callerVars == <<cpc, cop, ctimeout, cth, cinter, cresult, cout, cerr, ncalls>>
threadVars == <<tpc, tres>>
fieldVars == <<opState, opThread, opResult, opLock>>

\* TaskOperation.__init__
Construct ==
    /\ constructed = "pending"
    /\ constructed' = (IF InitCheck(cfg) = "ok" THEN "ok" ELSE "failed")
    /\ opState' = ST_NEW
    /\ opThread' = 0
    /\ opResult' = Unset
    /\ opLock' = NoOwner
    /\ UNCHANGED <<nonOpVars, cfg, procAlive, threadVars, callerVars, hist>>

(* ------------------------------- helpers ------------------------------- *)
Live == constructed = "ok" /\ procAlive

\* Thread.is_alive(): started and not yet terminated
IsAlive(t) == t # 0 /\ tpc[t] \notin {"unborn", "dead"}

Holds(c) == opLock = CallerId(c)

\* the caller's call ends by raising e
Raise(c, e) ==
    /\ cpc' = [cpc EXCEPT ![c] = "raised"]
    /\ cerr' = [cerr EXCEPT ![c] = e]

Goto(c, pc) == cpc' = [cpc EXCEPT ![c] = pc]

\* the locals of finish() go out of scope when the call ends
DropLocals(c) ==
    /\ ctimeout' = [ctimeout EXCEPT ![c] = "None"]
    /\ cth' = [cth EXCEPT ![c] = 0]
    /\ cinter' = [cinter EXCEPT ![c] = Unset]
    /\ cresult' = [cresult EXCEPT ![c] = NoneVal]

KeepLocals == UNCHANGED <<ctimeout, cth, cinter, cresult>>

CanCall(c) ==
    /\ Live
    /\ cpc[c] \in {"idle", "returned", "raised"}
    /\ ncalls < MaxCalls

BeginCall(c, op, timeout) ==
    /\ cop' = [cop EXCEPT ![c] = op]
    /\ ctimeout' = [ctimeout EXCEPT ![c] = timeout]
    /\ cth' = [cth EXCEPT ![c] = 0]
    /\ cinter' = [cinter EXCEPT ![c] = Unset]
    /\ cresult' = [cresult EXCEPT ![c] = NoneVal]
    /\ cout' = [cout EXCEPT ![c] = NoneVal]
    /\ cerr' = [cerr EXCEPT ![c] = NoError]
    /\ ncalls' = ncalls + 1
    /\ hist' = [hist EXCEPT !.obs[c] =
                   [NoObs EXCEPT !.priorFinish = hist.finishReturned]]

(* -------------------------------- "with" ------------------------------- *)
\* the pcs at which a caller waits to enter a "with self._lock:" block, and
\* the pc of the block's body
LockPcs == {"start_lock", "access_lock", "swr_lock1", "swr_lock2",
            "fin_lock1", "fin_lock2"}

BodyOf(pc) ==
    CASE pc = "start_lock" -> "start_body"
      [] pc = "access_lock" -> "access_body"
      [] pc = "swr_lock1" -> "swr_body1"
      [] pc = "swr_lock2" -> "swr_body2"
      [] pc = "fin_lock1" -> "fin_body1"
      [] pc = "fin_lock2" -> "fin_body2"

\* a caller enters a "with self._lock:" block
AcquireLock(c) ==
    /\ Live
    /\ cpc[c] \in LockPcs
    /\ opLock = NoOwner
    /\ opLock' = CallerId(c)
    /\ Goto(c, BodyOf(cpc[c]))
    /\ UNCHANGED <<nonOpVars, cfg, constructed, opState, opThread, opResult, procAlive,
                   threadVars, cop, ctimeout, cth, cinter, cresult, cout,
                   cerr, ncalls, hist>>

(* -------------------------------- start() ------------------------------ *)
\* a caller invokes start()
CallStart(c) ==
    /\ CanCall(c)
    /\ BeginCall(c, "start", "None")
    /\ Goto(c, "start_lock")
    /\ UNCHANGED <<nonOpVars, cfg, constructed, fieldVars, procAlive, threadVars>>

\* faulty variant of StartBody: the state is not asserted to be NEW
StartBody_NoAssert(c) ==
    /\ Live
    /\ cpc[c] = "start_body"
    /\ Holds(c)
    /\ opLock' = NoOwner
    /\ hist' = [hist EXCEPT !.obs[c].checked = opState]
    /\ opState' = STARTING
    /\ Goto(c, "access_lock")
    /\ UNCHANGED <<nonOpVars, cfg, constructed, opThread, opResult, procAlive,
                   threadVars, cop, ctimeout, cth, cinter, cresult, cout,
                   cerr, ncalls>>

\* faulty variant of StartBody: the state is set to RUNNING at once
StartBody_SkipStarting(c) ==
    /\ Live
    /\ cpc[c] = "start_body"
    /\ Holds(c)
    /\ opLock' = NoOwner
    /\ hist' = [hist EXCEPT !.obs[c].checked = opState]
    /\ IF opState = ST_NEW
       THEN /\ opState' = RUNNING
            /\ Goto(c, "access_lock")
            /\ UNCHANGED cerr
       ELSE /\ Raise(c, "AssertionError")
            /\ UNCHANGED opState
    /\ UNCHANGED <<nonOpVars, cfg, constructed, opThread, opResult, procAlive,
                   threadVars, cop, ctimeout, cth, cinter, cresult, cout,
                   ncalls>>

\* start(): the first locked block: assert NEW, then STARTING
StartBody(c) ==
    /\ Live
    /\ cpc[c] = "start_body"
    /\ Holds(c)
    /\ opLock' = NoOwner
    /\ hist' = [hist EXCEPT !.obs[c].checked = opState]
    /\ IF opState = ST_NEW
       THEN /\ opState' = STARTING
            /\ Goto(c, "access_lock")
            /\ UNCHANGED cerr
       ELSE /\ Raise(c, "AssertionError")
            /\ UNCHANGED opState
    /\ UNCHANGED <<nonOpVars, cfg, constructed, opThread, opResult, procAlive,
                   threadVars, cop, ctimeout, cth, cinter, cresult, cout,
                   ncalls>>

\* the rest of access_thread() once the thread field is decided
AccessThreadReturn(c) ==
    IF cop[c] = "finish"
    THEN /\ cth' = [cth EXCEPT ![c] = opThread']
         /\ Goto(c, IF opThread' # 0 THEN "fin_lock1" ELSE "fin_lock2")
    ELSE /\ UNCHANGED cth
         /\ Goto(c, "swr_lock1")

\* faulty variant of AccessThreadBody: a thread is created on every call,
\* whether or not one exists
AccessThreadBody_AlwaysSpawn(c) ==
    /\ Live
    /\ cpc[c] = "access_body"
    /\ Holds(c)
    /\ opLock' = NoOwner
    /\ IF cfg.thread_action
       THEN /\ hist.spawned < MaxThreads
            /\ opThread' = hist.spawned + 1
            /\ tpc' = [tpc EXCEPT ![hist.spawned + 1] = "begin"]
            /\ hist' = [hist EXCEPT !.spawned = @ + 1]
       ELSE UNCHANGED <<opThread, tpc, hist>>
    /\ AccessThreadReturn(c)
    /\ UNCHANGED <<nonOpVars, cfg, constructed, opState, opResult, procAlive, tres, cop,
                   ctimeout, cinter, cresult, cout, cerr, ncalls>>

\* faulty variant of AccessThreadBody: a thread is created although no thread
\* action is configured
AccessThreadBody_SpawnWithoutAction(c) ==
    /\ Live
    /\ cpc[c] = "access_body"
    /\ Holds(c)
    /\ opLock' = NoOwner
    /\ IF opThread = 0
       THEN /\ hist.spawned < MaxThreads
            /\ opThread' = hist.spawned + 1
            /\ tpc' = [tpc EXCEPT ![hist.spawned + 1] = "begin"]
            /\ hist' = [hist EXCEPT !.spawned = @ + 1]
       ELSE UNCHANGED <<opThread, tpc, hist>>
    /\ AccessThreadReturn(c)
    /\ UNCHANGED <<nonOpVars, cfg, constructed, opState, opResult, procAlive, tres, cop,
                   ctimeout, cinter, cresult, cout, cerr, ncalls>>

\* access_thread(): the locked block; creates and starts the thread on first
\* use when a thread action is configured
AccessThreadBody(c) ==
    /\ Live
    /\ cpc[c] = "access_body"
    /\ Holds(c)
    /\ opLock' = NoOwner
    /\ IF opThread = 0 /\ cfg.thread_action
       THEN /\ hist.spawned < MaxThreads
            /\ opThread' = hist.spawned + 1
            /\ tpc' = [tpc EXCEPT ![hist.spawned + 1] = "begin"]
            /\ hist' = [hist EXCEPT !.spawned = @ + 1, !.obs[c].spawned = TRUE]
       ELSE UNCHANGED <<opThread, tpc, hist>>
    /\ AccessThreadReturn(c)
    /\ UNCHANGED <<nonOpVars, cfg, constructed, opState, opResult, procAlive, tres, cop,
                   ctimeout, cinter, cresult, cout, cerr, ncalls>>

\* faulty variant of StartWaitReadyBody1: wait_ready is never called
StartWaitReadyBody1_NoWaitReady(c) ==
    /\ Live
    /\ cpc[c] = "swr_body1"
    /\ Holds(c)
    /\ opLock' = NoOwner
    /\ LET cmp == ValueGreater(StateValue(opState), StateValue(STARTING)) IN
       CASE cmp = "TypeError" ->
              /\ Raise(c, "TypeError")
              /\ UNCHANGED hist
         [] cmp = "true" ->
              /\ Goto(c, "returned")
              /\ UNCHANGED <<cerr, hist>>
         [] cmp = "false" /\ opState # STARTING ->
              /\ Raise(c, "AssertionError")
              /\ UNCHANGED hist
         [] cmp = "false" /\ opState = STARTING ->
              /\ Goto(c, "swr_lock2")
              /\ UNCHANGED <<cerr, hist>>
    /\ UNCHANGED <<nonOpVars, cfg, constructed, opState, opThread, opResult, procAlive,
                   threadVars, cop, ctimeout, cth, cinter, cresult, cout,
                   ncalls>>

\* faulty variant of StartWaitReadyBody1: wait_ready is called inside the
\* locked block
StartWaitReadyBody1_KeepLock(c) ==
    /\ Live
    /\ cpc[c] = "swr_body1"
    /\ Holds(c)
    /\ opLock' = (IF opState = STARTING /\ cfg.wait_ready THEN opLock ELSE NoOwner)
    /\ LET cmp == ValueGreater(StateValue(opState), StateValue(STARTING)) IN
       CASE cmp = "TypeError" ->
              /\ Raise(c, "TypeError")
              /\ UNCHANGED hist
         [] cmp = "true" ->
              /\ Goto(c, "returned")
              /\ UNCHANGED <<cerr, hist>>
         [] cmp = "false" /\ opState # STARTING ->
              /\ Raise(c, "AssertionError")
              /\ UNCHANGED hist
         [] cmp = "false" /\ opState = STARTING /\ cfg.wait_ready ->
              /\ Goto(c, "swr_wait_ready")
              /\ hist' = [hist EXCEPT !.waitReadys = @ + 1]
              /\ UNCHANGED cerr
         [] cmp = "false" /\ opState = STARTING /\ ~cfg.wait_ready ->
              /\ Goto(c, "swr_lock2")
              /\ UNCHANGED <<cerr, hist>>
    /\ UNCHANGED <<nonOpVars, cfg, constructed, opState, opThread, opResult, procAlive,
                   threadVars, cop, ctimeout, cth, cinter, cresult, cout,
                   ncalls>>

\* _start_wait_ready(): the first locked block, up to the call of wait_ready
StartWaitReadyBody1(c) ==
    /\ Live
    /\ cpc[c] = "swr_body1"
    /\ Holds(c)
    /\ opLock' = NoOwner
    /\ LET cmp == ValueGreater(StateValue(opState), StateValue(STARTING)) IN
       CASE cmp = "TypeError" ->
              /\ Raise(c, "TypeError")
              /\ UNCHANGED hist
         [] cmp = "true" ->
              /\ Goto(c, "returned")
              /\ UNCHANGED <<cerr, hist>>
         [] cmp = "false" /\ opState # STARTING ->
              /\ Raise(c, "AssertionError")
              /\ UNCHANGED hist
         [] cmp = "false" /\ opState = STARTING /\ cfg.wait_ready ->
              /\ Goto(c, "swr_wait_ready")
              /\ hist' = [hist EXCEPT !.waitReadys = @ + 1]
              /\ UNCHANGED cerr
         [] cmp = "false" /\ opState = STARTING /\ ~cfg.wait_ready ->
              /\ Goto(c, "swr_lock2")
              /\ UNCHANGED <<cerr, hist>>
    /\ UNCHANGED <<nonOpVars, cfg, constructed, opState, opThread, opResult, procAlive,
                   threadVars, cop, ctimeout, cth, cinter, cresult, cout,
                   ncalls>>

\* the wait_ready callback returns to _start_wait_ready()
WaitReadyReturns(c) ==
    /\ Live
    /\ cpc[c] = "swr_wait_ready"
    /\ Goto(c, "swr_lock2")
    /\ hist' = [hist EXCEPT !.waitReadyDone = @ + 1]
    /\ UNCHANGED <<nonOpVars, cfg, constructed, fieldVars, procAlive, threadVars, cop,
                   ctimeout, cth, cinter, cresult, cout, cerr, ncalls>>

\* the wait_ready callback raises; the exception leaves start()
WaitReadyRaises(c) ==
    /\ Live
    /\ cpc[c] = "swr_wait_ready"
    /\ Raise(c, "Exception")
    /\ UNCHANGED <<nonOpVars, cfg, constructed, fieldVars, procAlive, threadVars, cop,
                   ctimeout, cth, cinter, cresult, cout, ncalls, hist>>

\* faulty variant of StartWaitReadyBody2: RUNNING is set whatever the state
StartWaitReadyBody2_NoStateTest(c) ==
    /\ Live
    /\ cpc[c] = "swr_body2"
    /\ Holds(c)
    /\ opLock' = NoOwner
    /\ opState' = RUNNING
    /\ Goto(c, "returned")
    /\ UNCHANGED <<nonOpVars, cfg, constructed, opThread, opResult, procAlive,
                   threadVars, cop, ctimeout, cth, cinter, cresult, cout,
                   cerr, ncalls, hist>>

\* _start_wait_ready(): the second locked block: STARTING becomes RUNNING
StartWaitReadyBody2(c) ==
    /\ Live
    /\ cpc[c] = "swr_body2"
    /\ Holds(c)
    /\ opLock' = NoOwner
    /\ opState' = (IF opState = STARTING THEN RUNNING ELSE opState)
    /\ Goto(c, "returned")
    /\ UNCHANGED <<nonOpVars, cfg, constructed, opThread, opResult, procAlive,
                   threadVars, cop, ctimeout, cth, cinter, cresult, cout,
                   cerr, ncalls, hist>>

(* ------------------------- _run_thread_action -------------------------- *)
\* the thread enters _run_thread_action: the two assertions, then the call
\* of the thread action.  An AssertionError here is outside the try block and
\* ends this thread only.
ThreadBegin(t) ==
    /\ Live
    /\ tpc[t] = "begin"
    /\ IF opResult = Unset /\ cfg.thread_action
       THEN /\ tpc' = [tpc EXCEPT ![t] = "action"]
            /\ hist' = [hist EXCEPT !.actionRuns = @ + 1]
       ELSE /\ tpc' = [tpc EXCEPT ![t] = "dead"]
            /\ UNCHANGED hist
    /\ UNCHANGED <<nonOpVars, cfg, constructed, fieldVars, procAlive, tres, callerVars>>

\* the thread action returns r
ThreadActionReturns(t, r) ==
    /\ Live
    /\ tpc[t] = "action"
    /\ tpc' = [tpc EXCEPT ![t] = "acquire"]
    /\ tres' = [tres EXCEPT ![t] = r]
    /\ UNCHANGED <<nonOpVars, cfg, constructed, fieldVars, procAlive, callerVars, hist>>

\* the thread action raises an exception derived from Exception: it is
\* caught, logged, and os._exit(-1) ends the whole process at once
ThreadActionRaises(t) ==
    /\ Live
    /\ tpc[t] = "action"
    /\ tpc' = [tpc EXCEPT ![t] = "exited"]
    /\ procAlive' = FALSE
    /\ hist' = [hist EXCEPT !.actionRaised = TRUE]
    /\ UNCHANGED <<nonOpVars, cfg, constructed, fieldVars, tres, callerVars>>

\* the thread action raises an exception that is not derived from Exception
\* (SystemExit from sys.exit(), as Host.run(die_on_error=True) raises it):
\* "except Exception" does not catch it, it leaves _run_thread_action and the
\* thread ends without a result; the process goes on
ThreadActionRaisesSystemExit(t) ==
    /\ Live
    /\ tpc[t] = "action"
    /\ tpc' = [tpc EXCEPT ![t] = "dead"]
    /\ hist' = [hist EXCEPT !.actionRaised = TRUE]
    /\ UNCHANGED <<nonOpVars, cfg, constructed, fieldVars, procAlive, tres,
                   callerVars>>

\* the thread enters "with self._lock:"
ThreadAcquire(t) ==
    /\ Live
    /\ tpc[t] = "acquire"
    /\ opLock = NoOwner
    /\ opLock' = ThreadId(t)
    /\ tpc' = [tpc EXCEPT ![t] = "store"]
    /\ UNCHANGED <<nonOpVars, cfg, constructed, opState, opThread, opResult, procAlive,
                   tres, callerVars, hist>>

\* the locked block of _run_thread_action: assert no result yet, store it
ThreadStore(t) ==
    /\ Live
    /\ tpc[t] = "store"
    /\ opLock = ThreadId(t)
    /\ opLock' = NoOwner
    /\ IF opResult = Unset
       THEN /\ opResult' = tres[t]
            /\ tpc' = [tpc EXCEPT ![t] = "exiting"]
            /\ hist' = [hist EXCEPT !.writes = @ + 1]
       ELSE /\ tpc' = [tpc EXCEPT ![t] = "dead"]
            /\ UNCHANGED <<opResult, hist>>
    /\ UNCHANGED <<nonOpVars, cfg, constructed, opState, opThread, procAlive, tres,
                   callerVars>>

\* _run_thread_action returns and the thread terminates
ThreadExit(t) ==
    /\ Live
    /\ tpc[t] = "exiting"
    /\ tpc' = [tpc EXCEPT ![t] = "dead"]
    /\ UNCHANGED <<nonOpVars, cfg, constructed, fieldVars, procAlive, tres, callerVars,
                   hist>>

(* ------------------------------- finish() ------------------------------ *)
Timeouts == {"None", "T"}

\* a caller invokes finish(timeout); its first statement is access_thread()
CallFinish(c, timeout) ==
    /\ CanCall(c)
    /\ BeginCall(c, "finish", timeout)
    /\ Goto(c, "access_lock")
    /\ UNCHANGED <<nonOpVars, cfg, constructed, fieldVars, procAlive, threadVars>>

\* finish(), thread present: assert STARTING or RUNNING, then STOPPING
FinishBody1(c) ==
    /\ Live
    /\ cpc[c] = "fin_body1"
    /\ Holds(c)
    /\ opLock' = NoOwner
    /\ hist' = [hist EXCEPT !.obs[c].checked = opState]
    /\ IF opState \in {STARTING, RUNNING}
       THEN /\ opState' = STOPPING
            /\ Goto(c, "fin_join1")
            /\ KeepLocals
            /\ UNCHANGED cerr
       ELSE /\ Raise(c, "AssertionError")
            /\ DropLocals(c)
            /\ UNCHANGED opState
    /\ UNCHANGED <<nonOpVars, cfg, constructed, opThread, opResult, procAlive,
                   threadVars, cop, cout, ncalls>>

\* the bound of the first join: 0 when a cancel action exists
FirstJoinBound(c) == IF cfg.cancel_action THEN "0" ELSE ctimeout[c]

\* Thread.join(bound) returns once the thread has terminated or, with a bound
\* other than None, once the bound has elapsed
JoinReturns(t, bound) == ~IsAlive(t) \/ bound # "None"

\* faulty variant of FinishJoin1: the cancel action is called whether or not
\* the first join found the thread alive
FinishJoin1_CancelAlways(c) ==
    /\ Live
    /\ cpc[c] = "fin_join1"
    /\ JoinReturns(cth[c], FirstJoinBound(c))
    /\ Goto(c, IF cfg.cancel_action THEN "fin_cancel"
               ELSE IF IsAlive(cth[c]) THEN "fin_alive2" ELSE "fin_lock2")
    /\ UNCHANGED <<nonOpVars, cfg, constructed, fieldVars, procAlive, threadVars, cop,
                   ctimeout, cth, cinter, cresult, cout, cerr, ncalls, hist>>

\* faulty variant of FinishJoin1: the thread is not asked whether it is alive
\* after the join
FinishJoin1_NoAliveTest(c) ==
    /\ Live
    /\ cpc[c] = "fin_join1"
    /\ JoinReturns(cth[c], FirstJoinBound(c))
    /\ Goto(c, "fin_lock2")
    /\ UNCHANGED <<nonOpVars, cfg, constructed, fieldVars, procAlive, threadVars, cop,
                   ctimeout, cth, cinter, cresult, cout, cerr, ncalls, hist>>

\* finish(): th.join(t1) returns and the outer "if th.is_alive()" is
\* evaluated.  The thread's liveness is read once, when is_alive() runs: a
\* thread found alive there was alive when the join returned, so the join
\* returned on its bound.
FinishJoin1(c) ==
    /\ Live
    /\ cpc[c] = "fin_join1"
    /\ JoinReturns(cth[c], FirstJoinBound(c))
    /\ Goto(c, IF IsAlive(cth[c])
               THEN (IF cfg.cancel_action THEN "fin_cancel" ELSE "fin_alive2")
               ELSE "fin_lock2")
    /\ UNCHANGED <<nonOpVars, cfg, constructed, fieldVars, procAlive, threadVars, cop,
                   ctimeout, cth, cinter, cresult, cout, cerr, ncalls, hist>>

\* finish(): self._cancel() calls the cancel action
FinishCancel(c) ==
    /\ Live
    /\ cpc[c] = "fin_cancel"
    /\ Goto(c, "fin_join2")
    /\ hist' = [hist EXCEPT !.cancels = @ + 1, !.obs[c].cancels = @ + 1,
                            !.obs[c].joins = 0]
    /\ UNCHANGED <<nonOpVars, cfg, constructed, fieldVars, procAlive, threadVars, cop,
                   ctimeout, cth, cinter, cresult, cout, cerr, ncalls>>

\* faulty variant of FinishJoin2: a thread still alive after the second join
\* is ignored
FinishJoin2_NoRaise(c) ==
    /\ Live
    /\ cpc[c] = "fin_join2"
    /\ JoinReturns(cth[c], ctimeout[c])
    /\ hist' = [hist EXCEPT !.obs[c].joins = @ + 1]
    /\ Goto(c, "fin_lock2")
    /\ UNCHANGED <<nonOpVars, cfg, constructed, fieldVars, procAlive, threadVars, cop,
                   ctimeout, cth, cinter, cresult, cout, cerr, ncalls>>

\* finish(): th.join(timeout) after the cancel action returns and the inner
\* "if th.is_alive()" is evaluated: raise RuntimeError when still alive
FinishJoin2(c) ==
    /\ Live
    /\ cpc[c] = "fin_join2"
    /\ JoinReturns(cth[c], ctimeout[c])
    /\ hist' = [hist EXCEPT !.obs[c].joins = @ + 1,
                            !.timedOut = @ \/ IsAlive(cth[c])]
    /\ IF IsAlive(cth[c])
       THEN Raise(c, "RuntimeError") /\ DropLocals(c)
       ELSE Goto(c, "fin_lock2") /\ KeepLocals /\ UNCHANGED cerr
    /\ UNCHANGED <<nonOpVars, cfg, constructed, fieldVars, procAlive, threadVars, cop,
                   cout, ncalls>>

\* faulty variant of FinishAlive2: a thread still alive after the join is
\* logged and finish() goes on to its last block
FinishAlive2_GoOn(c) ==
    /\ Live
    /\ cpc[c] = "fin_alive2"
    /\ hist' = [hist EXCEPT !.timedOut = @ \/ IsAlive(cth[c])]
    /\ Goto(c, "fin_lock2") /\ KeepLocals /\ UNCHANGED cerr
    /\ UNCHANGED <<nonOpVars, cfg, constructed, fieldVars, procAlive, threadVars, cop,
                   cout, ncalls>>

\* finish(), no cancel action: the inner "if th.is_alive()" follows the outer
\* one at once: raise RuntimeError when still alive
FinishAlive2(c) ==
    /\ Live
    /\ cpc[c] = "fin_alive2"
    /\ hist' = [hist EXCEPT !.timedOut = @ \/ IsAlive(cth[c])]
    /\ IF IsAlive(cth[c])
       THEN Raise(c, "RuntimeError") /\ DropLocals(c)
       ELSE Goto(c, "fin_lock2") /\ KeepLocals /\ UNCHANGED cerr
    /\ UNCHANGED <<nonOpVars, cfg, constructed, fieldVars, procAlive, threadVars, cop,
                   cout, ncalls>>

\* what the last locked block of finish() reads into the locals
FinishReadResult(c) ==
    IF ~cfg.thread_action
    THEN /\ cinter' = [cinter EXCEPT ![c] = NoneVal]
         /\ UNCHANGED cresult
    ELSE IF opResult = Unset
    THEN /\ cresult' = [cresult EXCEPT ![c] = FailureOutput]
         /\ UNCHANGED cinter
    ELSE /\ cinter' = [cinter EXCEPT ![c] = opResult]
         /\ UNCHANGED cresult

\* faulty variant of FinishBody2: without a thread the state is not asserted
\* to be STARTING or RUNNING
FinishBody2_NoAssert(c) ==
    /\ Live
    /\ cpc[c] = "fin_body2"
    /\ Holds(c)
    /\ opLock' = NoOwner
    /\ hist' = [hist EXCEPT !.obs[c].checked =
                   IF cth[c] = 0 THEN opState ELSE @]
    /\ IF cth[c] = 0 \/ opState = STOPPING
       THEN /\ opState' = STOPPED
            /\ Goto(c, "fin_collect")
            /\ FinishReadResult(c)
            /\ UNCHANGED <<cerr, ctimeout, cth>>
       ELSE /\ Raise(c, "AssertionError")
            /\ DropLocals(c)
            /\ UNCHANGED opState
    /\ UNCHANGED <<nonOpVars, cfg, constructed, opThread, opResult, procAlive,
                   threadVars, cop, cout, ncalls>>

\* finish(): the last locked block: STOPPED, read the intermediate result
FinishBody2(c) ==
    /\ Live
    /\ cpc[c] = "fin_body2"
    /\ Holds(c)
    /\ opLock' = NoOwner
    /\ hist' = [hist EXCEPT !.obs[c].checked =
                   IF cth[c] = 0 THEN opState ELSE @]
    /\ IF (cth[c] # 0 /\ opState = STOPPING)
          \/ (cth[c] = 0 /\ opState \in {STARTING, RUNNING})
       THEN /\ opState' = STOPPED
            /\ Goto(c, "fin_collect")
            /\ FinishReadResult(c)
            /\ UNCHANGED <<cerr, ctimeout, cth>>
       ELSE /\ Raise(c, "AssertionError")
            /\ DropLocals(c)
            /\ UNCHANGED opState
    /\ UNCHANGED <<nonOpVars, cfg, constructed, opThread, opResult, procAlive,
                   threadVars, cop, cout, ncalls>>

\* faulty variant of FinishResult: the collect action is always called
\* without an argument
FinishResult_CollectNoArg(c) ==
    IF cresult[c] # NoneVal THEN cresult[c]
    ELSE IF ~cfg.collect_action THEN cinter[c]
    ELSE CollectAction0

\* finish(): the value computed after the locked block
FinishResult(c) ==
    IF cresult[c] # NoneVal THEN cresult[c]
    ELSE IF ~cfg.collect_action THEN cinter[c]
    ELSE IF cfg.thread_action THEN CollectAction1(cinter[c])
    ELSE CollectAction0

CollectCalled(c) == cresult[c] = NoneVal /\ cfg.collect_action

\* finish(): compute the result, assert it is a BaseOutput, return it
FinishCollect(c) ==
    /\ Live
    /\ cpc[c] = "fin_collect"
    /\ LET r == FinishResult(c) IN
       /\ hist' = [hist EXCEPT
              !.collects = IF CollectCalled(c) THEN @ + 1 ELSE @,
              !.finishReturned = @ \/ r.isOutput]
       /\ IF r.isOutput
          THEN /\ cout' = [cout EXCEPT ![c] = r]
               /\ Goto(c, "returned")
               /\ UNCHANGED cerr
          ELSE /\ Raise(c, "AssertionError")
               /\ UNCHANGED cout
    /\ DropLocals(c)
    /\ UNCHANGED <<nonOpVars, cfg, constructed, fieldVars, procAlive, threadVars, cop,
                   ncalls>>

(* ------------------------ Task and the aggregator ---------------------- *)
\* A task's result: kind "base" is a BaseOutput that is not aggregatable,
\* "flow" a FlowTestOutput, "plugin" a PluginOutput (both aggregatable);
\* src is the task that produced it.
NoRes == [kind |-> "none", src |-> 0]
Res(kind, t) == [kind |-> kind, src |-> t]
\* faulty variant of IsAggregatableOutput: every Output counts as aggregatable
IsAggregatableOutput_All(r) == r.kind # "none"

IsAggregatableOutput(r) == r.kind \in {"flow", "plugin"}
IsFlowTestOutput(r) == r.kind = "flow"
IsPluginOutput(r) == r.kind = "plugin"

\* opKind "none": the class keeps Task._create_task_operation, which returns
\* None; otherwise the kind of Output its operation's finish() returns
TaskClasses == [opKind : {"none", "base", "flow", "plugin"}, overrides : BOOLEAN]

\* The last call made on a task: its outcome, the aggregator as the call found
\* it, and whether the call invoked finish() of the task's operation.
NoCall == [task |-> 0, call |-> "none", err |-> NoError, preFlow |-> NoRes,
           prePlugins |-> <<>>, opFinish |-> FALSE]
Called(t, call, err) ==
    [task |-> t, call |-> call, err |-> err, preFlow |-> flow_test,
     prePlugins |-> plugins, opFinish |-> FALSE]

\* Tasks are interchangeable (every call may be made on every task, in any
\* order), so runs are enumerated up to renaming of the tasks: the classes are
\* listed in a fixed order along the task indices.
ClassIndex(cls) ==
    (CASE cls.opKind = "none" -> 0
       [] cls.opKind = "base" -> 2
       [] cls.opKind = "flow" -> 4
       [] cls.opKind = "plugin" -> 6) + (IF cls.overrides THEN 1 ELSE 0)

AggInit ==
    /\ taskCls \in [Tasks -> TaskClasses]
    /\ \A t1, t2 \in Tasks :
          t1 <= t2 => ClassIndex(taskCls[t1]) <= ClassIndex(taskCls[t2])
    /\ taskOp = [t \in Tasks |-> "none"]
    /\ taskResult = [t \in Tasks |-> NoRes]
    /\ lastCall = NoCall
    /\ flow_test = NoRes
    /\ plugins = <<>>
    /\ aggHist = [calls |-> 0, flowWrites |-> 0]

\* Task.start_task()
StartTask(t) ==
    /\ IF taskOp[t] # "none"
       THEN /\ lastCall' = Called(t, "start_task", "AssertionError")
            /\ UNCHANGED taskOp
       ELSE /\ taskOp' = [taskOp EXCEPT ![t] =
                   IF taskCls[t].opKind = "none" THEN "none" ELSE "running"]
            /\ lastCall' = Called(t, "start_task", NoError)
    /\ UNCHANGED <<nonAggVars, taskCls, taskResult, flow_test, plugins, aggHist>>

\* faulty variant of ResultIsNone: finish_task() does not look at _result
ResultIsNone_Unchecked(t) == TRUE

\* Task.finish_task(): assert self._result is None
ResultIsNone(t) == taskResult[t] = NoRes

\* Task.finish_task(); joined is whether the operation's thread terminates
\* within the timeout. The operation's finish() itself asserts that the
\* operation is STARTING or RUNNING.
FinishTask(t, joined) ==
    /\ IF taskOp[t] = "none"
       THEN /\ lastCall' = Called(t, "finish_task", NoError)
            /\ UNCHANGED <<taskOp, taskResult>>
       ELSE IF ~ResultIsNone(t)
       THEN /\ lastCall' = Called(t, "finish_task", "AssertionError")
            /\ UNCHANGED <<taskOp, taskResult>>
       ELSE IF taskOp[t] # "running"
       THEN /\ lastCall' = [Called(t, "finish_task", "AssertionError")
                               EXCEPT !.opFinish = TRUE]
            /\ UNCHANGED <<taskOp, taskResult>>
       ELSE IF ~joined
       THEN /\ lastCall' = [Called(t, "finish_task", "RuntimeError")
                               EXCEPT !.opFinish = TRUE]
            /\ taskOp' = [taskOp EXCEPT ![t] = "stopping"]
            /\ UNCHANGED taskResult
       ELSE /\ lastCall' = [Called(t, "finish_task", NoError)
                               EXCEPT !.opFinish = TRUE]
            /\ taskOp' = [taskOp EXCEPT ![t] = "stopped"]
            /\ taskResult' = [taskResult EXCEPT ![t] = Res(taskCls[t].opKind, t)]
    /\ UNCHANGED <<nonAggVars, taskCls, flow_test, plugins, aggHist>>

\* faulty variant of PrimarySlotCheck: an occupied primary slot is overwritten
PrimarySlotCheck_Overwrite(result, slot) == "ok"

\* Task.aggregate_output(out): "ok", or the exception raised at the check of
\* the primary slot
PrimarySlotCheck(result, slot) ==
    IF IsFlowTestOutput(result) /\ slot # NoRes THEN "RuntimeError" ELSE "ok"

\* faulty variant of AggregateOverride: the override puts the result in front
AggregateOverride_Prepend(t, result, list) ==
    IF ~taskCls[t].overrides THEN [err |-> "RuntimeError", list |-> list]
    ELSE IF ~IsPluginOutput(result) THEN [err |-> "AssertionError", list |-> list]
    ELSE [err |-> NoError, list |-> <<result>> \o list]

\* faulty variant of AggregateOverride: Task._aggregate_output returns
\* silently instead of raising
AggregateOverride_NoRaise(t, result, list) ==
    IF ~taskCls[t].overrides THEN [err |-> NoError, list |-> list]
    ELSE IF ~IsPluginOutput(result) THEN [err |-> "AssertionError", list |-> list]
    ELSE [err |-> NoError, list |-> Append(list, result)]

\* the _aggregate_output the task's class provides: Task's own raises, an
\* overriding one (TaskMeasurePower) asserts a PluginOutput and appends it
AggregateOverride(t, result, list) ==
    IF ~taskCls[t].overrides THEN [err |-> "RuntimeError", list |-> list]
    ELSE IF ~IsPluginOutput(result) THEN [err |-> "AssertionError", list |-> list]
    ELSE [err |-> NoError, list |-> Append(list, result)]

\* Task.aggregate_output(out)
AggregateOutput(t) ==
    /\ aggHist.calls < MaxAggCalls
    /\ LET result == taskResult[t]
           noop == result = NoRes \/ ~IsAggregatableOutput(result)
           chk == PrimarySlotCheck(result, flow_test)
           writes == ~noop /\ IsFlowTestOutput(result) /\ chk = "ok"
           delegates == ~noop /\ chk = "ok"
                        /\ ~(IsFlowTestOutput(result) /\ ~taskCls[t].overrides)
           ovr == AggregateOverride(t, result, plugins)
           err == IF noop THEN NoError
                  ELSE IF chk # "ok" THEN chk
                  ELSE IF delegates THEN ovr.err ELSE NoError
       IN
       /\ flow_test' = (IF writes THEN result ELSE flow_test)
       /\ plugins' = (IF delegates THEN ovr.list ELSE plugins)
       /\ lastCall' = Called(t, "aggregate_output", err)
       /\ aggHist' = [calls |-> aggHist.calls + 1,
                      flowWrites |-> aggHist.flowWrites + (IF writes THEN 1 ELSE 0)]
    /\ UNCHANGED <<nonAggVars, taskCls, taskOp, taskResult>>

AggNext ==
    \/ \E t \in Tasks : StartTask(t)
    \/ \E t \in Tasks : \E joined \in BOOLEAN : FinishTask(t, joined)
    \/ \E t \in Tasks : AggregateOutput(t)

\* the operation's variables while only tasks and the aggregator act
OpIdle ==
    /\ cfg = [thread_action |-> FALSE, collect_action |-> TRUE,
              cancel_action |-> FALSE, wait_ready |-> FALSE]
    /\ constructed = "pending"
    /\ opState = ST_NEW
    /\ opThread = 0
    /\ opResult = Unset
    /\ opLock = NoOwner
    /\ procAlive = TRUE
    /\ tpc = [t \in Threads |-> "unborn"]
    /\ tres = [t \in Threads |-> Unset]
    /\ cpc = [c \in Callers |-> "idle"]
    /\ cop = [c \in Callers |-> "none"]
    /\ ctimeout = [c \in Callers |-> "None"]
    /\ cth = [c \in Callers |-> 0]
    /\ cinter = [c \in Callers |-> Unset]
    /\ cresult = [c \in Callers |-> NoneVal]
    /\ cout = [c \in Callers |-> NoneVal]
    /\ cerr = [c \in Callers |-> NoError]
    /\ ncalls = 0
    /\ hist = HistInit

\* the tasks' and the aggregator's variables while only the operation acts
AggIdle ==
    /\ taskCls = [t \in Tasks |-> [opKind |-> "none", overrides |-> FALSE]]
    /\ taskOp = [t \in Tasks |-> "none"]
    /\ taskResult = [t \in Tasks |-> NoRes]
    /\ lastCall = NoCall
    /\ flow_test = NoRes
    /\ plugins = <<>>
    /\ aggHist = [calls |-> 0, flowWrites |-> 0]

(* -------------------- Task construction and services ------------------- *)
ClusterModes == {"SINGLE", "DPU"}

\* faulty variant of TenantCheck: the test of the tenant flag is inverted
TenantCheck_Inverted(tenant, mode) ==
    IF tenant /\ mode = "SINGLE" THEN "ValueError" ELSE "ok"

\* Task.__init__: "ok", or the exception raised by its last statement
TenantCheck(tenant, mode) ==
    IF ~tenant /\ mode = "SINGLE" THEN "ValueError" ELSE "ok"

\* sys.exit(-1): the argument, and the exit status the process ends with
SysExitArg == -1
ExitStatus(arg) == arg % 256
Running == [exited |-> FALSE, status |-> 0]
Exited(arg) == [exited |-> TRUE, status |-> ExitStatus(arg)]

\* The error text of a command is a sequence of words; Contains is the
\* substring test ("already exists" not in r.err).
Contains(sub, text) ==
    \E i \in 0..(Len(text) - Len(sub)) : SubSeq(text, i + 1, i + Len(sub)) = sub

AlreadyExists == <<"already", "exists">>
ErrNone == <<>>
ErrAlreadyExists == <<"services", "tft", "already", "exists">>
ErrForbidden == <<"forbidden">>

\* the results "oc apply" may come back with
ApplyResults ==
    {[returncode |-> 0, err |-> ErrNone],
     [returncode |-> 1, err |-> ErrAlreadyExists],
     [returncode |-> 1, err |-> ErrForbidden]}

\* faulty variant of ApplyFatal: every failed apply is fatal
ApplyFatal_AnyFailure(r) == r.returncode # 0

\* create_*_service: the apply failed and is not tolerated
ApplyFatal(r) == r.returncode # 0 /\ ~Contains(AlreadyExists, r.err)

NoApply == [task |-> 0, svc |-> "none", result |-> [returncode |-> 0, err |-> ErrNone]]
SvcCmd(t, svc, cmd) == [task |-> t, svc |-> svc, cmd |-> cmd]

ConnectionModes ==
    {"POD_IP", "CLUSTER_IP", "NODE_PORT_IP", "EXTERNAL_IP", "MULTI_NETWORK",
     "MULTI_HOME", "NETWORK_POLICY"}

NoCmd == [task |-> 0, action |-> "none", mode |-> "CLUSTER_IP",
          persistent |-> FALSE, ran |-> "none", success |-> TRUE]

\* faulty variant of RunCmd: the persistent flag is not looked at
RunCmd_NoPersistent(mode, persistent, ignore_failure, rcOk) ==
    IF mode = "EXTERNAL_IP"
    THEN [ran |-> "local", success |-> ignore_failure \/ rcOk]
    ELSE [ran |-> "remote", success |-> ignore_failure \/ rcOk]

\* _run_cmd(cmd, ignore_failure=...) of the server's setup operation: where
\* the command is run ("none": no command is run) and whether the Output it
\* returns is a success; rcOk is whether a command that is run exits with 0
RunCmd(mode, persistent, ignore_failure, rcOk) ==
    IF mode = "EXTERNAL_IP"
    THEN [ran |-> "local", success |-> ignore_failure \/ rcOk]
    ELSE IF persistent
    THEN [ran |-> "none", success |-> TRUE]
    ELSE [ran |-> "remote", success |-> ignore_failure \/ rcOk]

\* the thread action (ignore_failure = TRUE) or the cancel action
\* (ignore_failure = FALSE) of a server's setup operation is called
ServerRunCmd(t, action, mode, persistent, rcOk) ==
    /\ exitStatus = Running
    /\ taskMade[t] = "made"
    /\ LET r == RunCmd(mode, persistent, action = "thread_action", rcOk) IN
       lastCmd' = [task |-> t, action |-> action, mode |-> mode,
                   persistent |-> persistent, ran |-> r.ran,
                   success |-> r.success]
    /\ UNCHANGED <<nonSetupVars, clusterMode, taskMade, taskTenant, initPc, svcLog,
                   lastApply, exitStatus>>

SetupInit ==
    /\ clusterMode \in ClusterModes
    /\ taskMade = [t \in Tasks |-> "pending"]
    /\ taskTenant = [t \in Tasks |-> TRUE]
    /\ initPc = [t \in Tasks |-> "none"]
    /\ svcLog = <<>>
    /\ lastApply = NoApply
    /\ lastCmd = NoCmd
    /\ exitStatus = Running

\* Task.__init__(ts, index, node_name, tenant)
ConstructTask(t, tenant) ==
    /\ exitStatus = Running
    /\ taskMade[t] = "pending"
    /\ taskTenant' = [taskTenant EXCEPT ![t] = tenant]
    /\ taskMade' = [taskMade EXCEPT ![t] =
           IF TenantCheck(tenant, clusterMode) = "ok" THEN "made" ELSE "ValueError"]
    /\ UNCHANGED <<nonSetupVars, clusterMode, initPc, svcLog, lastApply, lastCmd,
                   exitStatus>>

\* the body the two create_*_service methods share: apply the rendered file,
\* exit on an error that is not tolerated, else query the service's address
CreateService(t, svc, r, next) ==
    /\ exitStatus = Running
    /\ taskMade[t] = "made"
    /\ lastApply' = [task |-> t, svc |-> svc, result |-> r]
    /\ IF ApplyFatal(r)
       THEN /\ svcLog' = Append(svcLog, SvcCmd(t, svc, "apply"))
            /\ exitStatus' = Exited(SysExitArg)
            /\ UNCHANGED initPc
       ELSE /\ svcLog' = svcLog \o <<SvcCmd(t, svc, "apply"), SvcCmd(t, svc, "get")>>
            /\ initPc' = [initPc EXCEPT ![t] = next]
            /\ UNCHANGED exitStatus
    /\ UNCHANGED <<nonSetupVars, clusterMode, taskMade, taskTenant, lastCmd>>

\* Task.create_cluster_ip_service(), the first call of ServerTask.initialize()
CreateClusterIpService(t, r) ==
    /\ initPc[t] = "none"
    /\ \A u \in Tasks : initPc[u] # "cluster_ip"
    /\ CreateService(t, "cluster_ip", r, "cluster_ip")

\* Task.create_node_port_service(), the call that follows it
CreateNodePortService(t, r) ==
    /\ initPc[t] = "cluster_ip"
    /\ CreateService(t, "node_port", r, "initialized")

SetupNext ==
    \/ \E t \in Tasks : \E tenant \in BOOLEAN : ConstructTask(t, tenant)
    \/ \E t \in Tasks : \E r \in ApplyResults : CreateClusterIpService(t, r)
    \/ \E t \in Tasks : \E r \in ApplyResults : CreateNodePortService(t, r)
    \/ \E t \in Tasks : \E action \in {"thread_action", "cancel_action"} :
       \E mode \in ConnectionModes : \E persistent, rcOk \in BOOLEAN :
          ServerRunCmd(t, action, mode, persistent, rcOk)

\* no task is constructed and no service is created
SetupIdle ==
    /\ clusterMode = "DPU"
    /\ taskMade = [t \in Tasks |-> "pending"]
    /\ taskTenant = [t \in Tasks |-> TRUE]
    /\ initPc = [t \in Tasks |-> "none"]
    /\ svcLog = <<>>
    /\ lastApply = NoApply
    /\ lastCmd = NoCmd
    /\ exitStatus = Running

(* ------------------------ one run of a test case ------------------------ *)
NumMonitors == 1

\* servers + clients of one _run(): one server and one client; the monitors
\* follow them in the list _run_tests() walks through
FixedParties == <<"server", "client">>
MaxParties == Len(FixedParties) + NumMonitors
PartyIds == 1..MaxParties
LastParty == Len(FixedParties) + nmon
NumClients == Cardinality({i \in DOMAIN FixedParties : FixedParties[i] = "client"})

\* a thread the run does not count on, which calls wait_on_barrier() as well
Extra == MaxParties + 1
ThreadIds == (PartyIds \cup {Extra}) \ {i \in DOMAIN FixedParties : FixedParties[i] = "server"}

Role(p) ==
    IF p = Extra THEN "extra"
    ELSE IF p <= Len(FixedParties) THEN FixedParties[p] ELSE "monitor"

\* faulty variant of RunTestsSteps: the results are collected before the stop
RunTestsSteps_OutputBeforeStop ==
    <<"setup", "wait_on_server_alive", "run", "wait_on_client_finish", "output",
      "stop">>

\* faulty variant of RunTestsSteps: the driver does not wait for the server
RunTestsSteps_NoAliveWait ==
    <<"setup", "run", "wait_on_client_finish", "stop", "output">>

\* TrafficFlowTests._run_tests(): four loops over servers + clients + monitors
\* and the two waits between them
RunTestsSteps ==
    <<"setup", "wait_on_server_alive", "run", "wait_on_client_finish", "stop",
      "output">>

LoopCalls == {"setup", "run", "stop", "output"}

\* faulty variant of ClientSteps: the latch is set before the command is run
ClientSteps_SetBeforeCommand ==
    <<"wait_on_barrier", "set_client_finished", "run_oc", "return">>

\* faulty variant of ClientSteps: the client does not wait at the barrier
ClientSteps_NoBarrier == <<"run_oc", "set_client_finished", "return">>

\* NetPerfClient.run(): the function "client" the client thread runs
ClientSteps == <<"wait_on_barrier", "run_oc", "set_client_finished", "return">>

\* faulty variant of RunPrologue: the SyncManager is reset before the run's
\* tasks exist
RunPrologue_ResetFirst == <<"reset", "construct">>

\* TrafficFlowTests._run() up to the call of _run_tests(): the servers, clients
\* and monitors are constructed, then the SyncManager is reset
RunPrologue == <<"construct", "reset">>

DInstr == IF dpc.step \in DOMAIN RunTestsSteps THEN RunTestsSteps[dpc.step] ELSE "none"
PInstr ==
    IF dpc.step = 0 /\ dpc.pro \in DOMAIN RunPrologue THEN RunPrologue[dpc.pro]
    ELSE "none"
ClientInstr == IF cpos \in DOMAIN ClientSteps THEN ClientSteps[cpos] ELSE "none"

\* SyncManager.reset(n): the barrier gets size n, both latches are cleared
Reset(n) ==
    [server_alive |-> FALSE, client_finished |-> FALSE, n |-> n, arrived |-> 0]

\* SyncManager's latches: a wait returns once the latch is set
WaitOnServerAliveReturns == sync.server_alive
WaitOnClientFinishReturns == sync.client_finished
SetServerAlive(s) == [s EXCEPT !.server_alive = TRUE]
SetClientFinished(s) == [s EXCEPT !.client_finished = TRUE]

\* SyncManager.wait_on_barrier() returns for the caller that arrived as number
\* tk: it is one of the first n, and n callers have arrived
BarrierOpen(tk) == tk # 0 /\ tk <= sync.n /\ sync.arrived >= sync.n

\* resets: the calls of SyncManager.reset(); stale: the latches found set by
\* the first of them; podFailed: the participant whose setup_pod() command
\* no output() has been applied to an aggregator given from outside the run
NoOutCall == [called |-> FALSE, pre |-> NoRes, post |-> NoRes, err |-> NoError]

\* failed; observed: the server was seen alive by confirm_server_alive();
\* ok1: the monitors whose first sample returned exit code 0; combined: the
\* monitors whose result joins a first and a second sample
RunHistInit ==
    [aliveWaited |-> FALSE, passed |-> {}, cmdDone |-> FALSE, cmdEarly |-> FALSE,
     sampleEarly |-> FALSE, finishSets |-> 0, setEarly |-> FALSE,
     resets |-> 0, stale |-> {}, podFailed |-> 0, observed |-> FALSE,
     ok1 |-> {}, combined |-> {}, outCall |-> NoOutCall]

NotCalled == [call |-> "none", returned |-> TRUE]

\* the polls confirm_server_alive() makes within its 60 seconds
MaxPolls == 2

\* confirm_server_alive(): no command has been run yet
NoPoll == [polls |-> 0, found |-> FALSE, rcOk |-> FALSE]

\* the driver as _run() begins: pro is its position in the prologue, made
\* whether the lists of servers, clients and monitors are filled, pod whether
\* setup_pod() of the setup() under way has returned, ext whether the server
\* is in the external connection mode, r the local r of
\* confirm_server_alive()
DriverStart ==
    [step |-> 0, pro |-> 1, made |-> FALSE, idx |-> 1, incall |-> FALSE,
     pod |-> FALSE, ext |-> FALSE, r |-> NoPoll, err |-> NoError]

\* the state _run() finds: the latches are as the previous run left them
RunInit ==
    /\ nmon \in 0..NumMonitors
    /\ dpc = DriverStart
    /\ called = [p \in PartyIds |-> NotCalled]
    /\ spc = "unborn"
    /\ cpos = 0
    /\ mpc = [p \in PartyIds |-> "unborn"]
    /\ ticket = [p \in ThreadIds |-> 0]
    /\ sync \in [server_alive : BOOLEAN, client_finished : BOOLEAN,
                 n : {0}, arrived : {0}]
    /\ runHist = RunHistInit

RunLive == exitStatus = Running
DriverLive == RunLive /\ dpc.err = NoError

\* the driver's position after a step of the prologue
ProNext ==
    IF dpc.pro < Len(RunPrologue)
    THEN [dpc EXCEPT !.pro = @ + 1]
    ELSE [dpc EXCEPT !.pro = @ + 1, !.step = 1]

\* _run(): the server and the client are created and appended, the monitors
\* of the connection's plugins are added
RunConstruct ==
    /\ DriverLive
    /\ PInstr = "construct"
    /\ dpc' = [ProNext EXCEPT !.made = TRUE]
    /\ UNCHANGED <<nonDriverVars, flow_test, plugins, exitStatus, nmon, called, spc,
                   cpos, mpc, ticket, sync, runHist>>

\* len(clients) + len(monitors), of the lists as they are
ResetArg == IF dpc.made THEN NumClients + nmon ELSE 0

\* _run(): SyncManager.reset(len(clients) + len(monitors))
RunReset ==
    /\ DriverLive
    /\ PInstr = "reset"
    /\ sync' = Reset(ResetArg)
    /\ dpc' = ProNext
    /\ runHist' = [runHist EXCEPT
           !.resets = @ + 1,
           !.stale = {l \in {"server_alive", "client_finished"} : sync[l]}]
    /\ UNCHANGED <<nonDriverVars, flow_test, plugins, exitStatus, nmon, called, spc,
                   cpos, mpc, ticket>>

\* the driver's position after the call on participant dpc.idx has returned
NextPos ==
    IF dpc.idx < LastParty
    THEN [dpc EXCEPT !.idx = @ + 1, !.incall = FALSE]
    ELSE [dpc EXCEPT !.step = @ + 1, !.idx = 1, !.incall = FALSE]

Returned(p) == [called EXCEPT ![p].returned = TRUE]

\* the driver calls setup(), run(), stop() or output() on the next participant
CallBegin ==
    /\ DriverLive
    /\ DInstr \in LoopCalls
    /\ ~dpc.incall
    /\ dpc' = [dpc EXCEPT !.incall = TRUE, !.pod = FALSE]
    /\ called' = [called EXCEPT ![dpc.idx] = [call |-> DInstr, returned |-> FALSE]]
    /\ UNCHANGED <<nonDriverVars, flow_test, plugins, exitStatus, nmon, spc, cpos,
                   mpc, ticket, sync, runHist>>

\* faulty variant of DiesOnError: a failed command returns its result
DiesOnError_Never(die_on_error, success) == FALSE

\* Host.run(): sys.exit(-1) after a failed command that was run with
\* die_on_error
DiesOnError(die_on_error, success) == die_on_error /\ ~success

\* Task.setup_pod(): the pod is looked up (may_fail), applied with
\* die_on_error when it does not exist, and waited for with die_on_error;
\* whether one of its commands failed, and whether the process exits in it
SetupPodFails(exists, applyOk, waitOk) == (~exists /\ ~applyOk) \/ ~waitOk
SetupPodExits(exists, applyOk, waitOk) ==
    \/ ~exists /\ DiesOnError(TRUE, applyOk)
    \/ DiesOnError(TRUE, waitOk)

\* setup() of a participant runs setup_pod(); a server in the external
\* connection mode has no pod and skips it. NetPerfServer.setup() then
\* starts the server's exec thread.
SetupPod(external, exists, applyOk, waitOk) ==
    /\ DriverLive
    /\ DInstr = "setup"
    /\ dpc.incall
    /\ ~dpc.pod
    /\ external => Role(dpc.idx) = "server"
    /\ runHist' = [runHist EXCEPT !.podFailed =
           IF ~external /\ SetupPodFails(exists, applyOk, waitOk)
           THEN dpc.idx ELSE @]
    /\ IF ~external /\ SetupPodExits(exists, applyOk, waitOk)
       THEN /\ exitStatus' = Exited(SysExitArg)
            /\ UNCHANGED <<dpc, spc>>
       ELSE /\ dpc' = [dpc EXCEPT !.pod = TRUE, !.ext = external]
            /\ spc' = (IF Role(dpc.idx) = "server" THEN "running" ELSE spc)
            /\ UNCHANGED exitStatus
    /\ UNCHANGED <<nonDriverVars, flow_test, plugins, nmon, called, cpos, mpc,
                   ticket, sync>>

\* confirm_server_alive(), external mode: one round of the polling loop; the
\* loop is left when the server's name is in the output
ConfirmPoll(found, rcOk) ==
    /\ DriverLive
    /\ DInstr = "setup"
    /\ dpc.incall
    /\ dpc.pod
    /\ Role(dpc.idx) = "server"
    /\ dpc.ext
    /\ dpc.r.polls < MaxPolls
    /\ ~dpc.r.found
    /\ dpc' = [dpc EXCEPT !.r = [polls |-> @.polls + 1, found |-> found,
                                 rcOk |-> rcOk]]
    /\ runHist' = [runHist EXCEPT !.observed = @ \/ found]
    /\ UNCHANGED <<nonDriverVars, flow_test, plugins, exitStatus, nmon, called,
                   spc, cpos, mpc, ticket, sync>>

\* confirm_server_alive(): "if not r or r.returncode != 0: sys.exit(-1)"; a
\* Result is always true as a condition
ConfirmExits(r) == ~r.rcOk

\* setup() returns; the server's ends with confirm_server_alive(): in the
\* external mode the polling loop has ended, by its break or because the time
\* is up, and r is the result of its last poll; in the cluster mode r is the
\* result of "oc wait", which succeeds (ok) when the pod is ready.  The latch
\* is set unless the process exits.
SetupReturn(ok) ==
    /\ DriverLive
    /\ DInstr = "setup"
    /\ dpc.incall
    /\ dpc.pod
    /\ Role(dpc.idx) = "server" /\ dpc.ext => dpc.r.polls >= 1
    /\ LET server == Role(dpc.idx) = "server"
           r == IF dpc.ext THEN dpc.r
                ELSE [polls |-> 0, found |-> ok, rcOk |-> ok]
       IN /\ runHist' = [runHist EXCEPT !.observed =
                            IF server THEN @ \/ r.found ELSE @]
          /\ IF server /\ ConfirmExits(r)
             THEN /\ exitStatus' = Exited(SysExitArg)
                  /\ UNCHANGED <<dpc, called, sync>>
             ELSE /\ sync' = (IF server THEN SetServerAlive(sync) ELSE sync)
                  /\ called' = Returned(dpc.idx)
                  /\ dpc' = [NextPos EXCEPT !.r = NoPoll]
                  /\ UNCHANGED exitStatus
    /\ UNCHANGED <<nonDriverVars, flow_test, plugins, nmon, spc, cpos, mpc, ticket>>

\* SyncManager.wait_on_server_alive()
WaitOnServerAlive ==
    /\ DriverLive
    /\ DInstr = "wait_on_server_alive"
    /\ WaitOnServerAliveReturns
    /\ dpc' = [dpc EXCEPT !.step = @ + 1]
    /\ runHist' = [runHist EXCEPT !.aliveWaited = TRUE]
    /\ UNCHANGED <<nonDriverVars, flow_test, plugins, exitStatus, nmon, called, spc,
                   cpos, mpc, ticket, sync>>

\* run() returns: the client and the monitors have started their thread
RunReturn ==
    /\ DriverLive
    /\ DInstr = "run"
    /\ dpc.incall
    /\ cpos' = (IF Role(dpc.idx) = "client" THEN 1 ELSE cpos)
    /\ mpc' = (IF Role(dpc.idx) = "monitor"
               THEN [mpc EXCEPT ![dpc.idx] = "barrier"] ELSE mpc)
    /\ called' = Returned(dpc.idx)
    /\ dpc' = NextPos
    /\ UNCHANGED <<nonDriverVars, flow_test, plugins, exitStatus, nmon, spc, ticket,
                   sync, runHist>>

\* SyncManager.wait_on_client_finish()
WaitOnClientFinish ==
    /\ DriverLive
    /\ DInstr = "wait_on_client_finish"
    /\ WaitOnClientFinishReturns
    /\ dpc' = [dpc EXCEPT !.step = @ + 1]
    /\ UNCHANGED <<nonDriverVars, flow_test, plugins, exitStatus, nmon, called, spc,
                   cpos, mpc, ticket, sync, runHist>>

\* stop() returns: the join of the participant's thread has ended, with the
\* thread or with the timeout; the server's command is ended by its cleanup
StopReturn ==
    /\ DriverLive
    /\ DInstr = "stop"
    /\ dpc.incall
    /\ spc' = (IF Role(dpc.idx) = "server" THEN "done" ELSE spc)
    /\ called' = Returned(dpc.idx)
    /\ dpc' = NextPos
    /\ UNCHANGED <<nonDriverVars, flow_test, plugins, exitStatus, nmon, cpos, mpc,
                   ticket, sync, runHist>>

\* NetPerfClient.output(out) of client p, on an aggregator whose primary slot
\* holds flow: the assertion on the type of _output, then out.flow_test =
\* self._output
NetPerfClientOutput(has, flow, p) ==
    IF ~has THEN [err |-> "AssertionError", flow_test |-> flow]
    ELSE [err |-> NoError, flow_test |-> Res("flow", p)]

\* output(out) returns or raises; has: the participant's _output is of the
\* type its output() looks for (IperfOutput, PluginOutput)
OutputReturn(has) ==
    /\ DriverLive
    /\ DInstr = "output"
    /\ dpc.incall
    /\ LET p == dpc.idx
           o == NetPerfClientOutput(has, flow_test, p)
       IN
       IF Role(p) = "client" /\ o.err # NoError
       THEN /\ dpc' = [dpc EXCEPT !.err = o.err]
            /\ UNCHANGED <<called, flow_test, plugins>>
       ELSE /\ flow_test' = (IF Role(p) = "client" THEN o.flow_test ELSE flow_test)
            /\ plugins' = (IF Role(p) = "monitor" /\ has
                           THEN Append(plugins, Res("plugin", p)) ELSE plugins)
            /\ called' = Returned(p)
            /\ dpc' = NextPos
    /\ UNCHANGED <<nonDriverVars, exitStatus, nmon, spc, cpos, mpc, ticket, sync,
                   runHist>>

\* the aggregators output() is applied to after the run: an empty one and
\* one whose primary slot holds the result of an earlier client
OutArgs == {NoRes, Res("flow", 0)}

\* the client of the run
TheClient == CHOOSE p \in PartyIds : Role(p) = "client"

\* after the run: output(out) of the run's client is called on an aggregator
\* out whose primary slot is pre
ClientOutputOn(pre, has) ==
    /\ DriverLive
    /\ dpc.step > Len(RunTestsSteps)
    /\ ~runHist.outCall.called
    /\ LET o == NetPerfClientOutput(has, pre, TheClient) IN
       runHist' = [runHist EXCEPT !.outCall =
           [called |-> TRUE, pre |-> pre, post |-> o.flow_test, err |-> o.err]]
    /\ UNCHANGED <<nonDriverVars, flow_test, plugins, exitStatus, nmon, dpc, called,
                   spc, cpos, mpc, ticket, sync>>

\* the server's command returns
ServerThreadEnds ==
    /\ RunLive
    /\ spc = "running"
    /\ spc' = "done"
    /\ UNCHANGED <<nonDriverVars, flow_test, plugins, exitStatus, nmon, dpc, called,
                   cpos, mpc, ticket, sync, runHist>>

\* thread p is in wait_on_barrier(), or about to call it
AtBarrier(p) ==
    CASE Role(p) = "client" -> ClientInstr = "wait_on_barrier"
      [] Role(p) = "monitor" -> mpc[p] = "barrier"
      [] Role(p) = "extra" -> dpc.step > 0 /\ p \notin runHist.passed
      [] OTHER -> FALSE

\* SyncManager.wait_on_barrier(): the caller is counted
BarrierArrive(p) ==
    /\ RunLive
    /\ AtBarrier(p)
    /\ ticket[p] = 0
    /\ sync' = [sync EXCEPT !.arrived = @ + 1]
    /\ ticket' = [ticket EXCEPT ![p] = sync.arrived + 1]
    /\ UNCHANGED <<nonDriverVars, flow_test, plugins, exitStatus, nmon, dpc, called,
                   spc, cpos, mpc, runHist>>

\* SyncManager.wait_on_barrier() returns
BarrierPass(p) ==
    /\ RunLive
    /\ AtBarrier(p)
    /\ BarrierOpen(ticket[p])
    /\ runHist' = [runHist EXCEPT !.passed = @ \cup {p}]
    /\ cpos' = (IF Role(p) = "client" THEN cpos + 1 ELSE cpos)
    /\ mpc' = (IF Role(p) = "monitor" THEN [mpc EXCEPT ![p] = "extract"] ELSE mpc)
    /\ UNCHANGED <<nonDriverVars, flow_test, plugins, exitStatus, nmon, dpc, called,
                   spc, ticket, sync>>

\* client: r = self.run_oc(cmd), the traffic command
ClientRunOc ==
    /\ RunLive
    /\ ClientInstr = "run_oc"
    /\ cpos' = cpos + 1
    /\ runHist' = [runHist EXCEPT !.cmdDone = TRUE,
                                  !.cmdEarly = @ \/ sync.arrived < sync.n]
    /\ UNCHANGED <<nonDriverVars, flow_test, plugins, exitStatus, nmon, dpc, called,
                   spc, mpc, ticket, sync>>

\* client: SyncManager.set_client_finished()
ClientSetFinished ==
    /\ RunLive
    /\ ClientInstr = "set_client_finished"
    /\ cpos' = cpos + 1
    /\ sync' = SetClientFinished(sync)
    /\ runHist' = [runHist EXCEPT
           !.finishSets = @ + 1,
           !.setEarly = @ \/ ~(runHist.cmdDone
                                /\ \E p \in runHist.passed : Role(p) = "client")]
    /\ UNCHANGED <<nonDriverVars, flow_test, plugins, exitStatus, nmon, dpc, called,
                   spc, mpc, ticket>>

\* client: return r
ClientReturn ==
    /\ RunLive
    /\ ClientInstr = "return"
    /\ cpos' = Len(ClientSteps) + 1
    /\ UNCHANGED <<nonDriverVars, flow_test, plugins, exitStatus, nmon, dpc, called,
                   spc, mpc, ticket, sync, runHist>>

\* stat: vf_rep = self.extract_vf_rep(); a host-backed pod and an external
\* server have nothing to sample (early)
StatExtractVfRep(m, early) ==
    /\ RunLive
    /\ mpc[m] = "extract"
    /\ mpc' = [mpc EXCEPT ![m] = IF early THEN "done" ELSE "sample1"]
    /\ UNCHANGED <<nonDriverVars, flow_test, plugins, exitStatus, nmon, dpc, called,
                   spc, cpos, ticket, sync, runHist>>

\* stat: the first run_ethtool_cmd() and the test of its result
StatSample1(m, success1, returncode) ==
    /\ RunLive
    /\ mpc[m] = "sample1"
    /\ ~success1 => returncode # 0
    /\ mpc' = [mpc EXCEPT ![m] =
           IF ~success1 \/ ~(returncode # 0) THEN "done" ELSE "wait_finish"]
    /\ runHist' = [runHist EXCEPT
           !.sampleEarly = @ \/ sync.arrived < sync.n,
           !.ok1 = IF success1 /\ returncode = 0 THEN @ \cup {m} ELSE @]
    /\ UNCHANGED <<nonDriverVars, flow_test, plugins, exitStatus, nmon, dpc, called,
                   spc, cpos, ticket, sync>>

\* stat: SyncManager.wait_on_client_finish()
StatWaitOnClientFinish(m) ==
    /\ RunLive
    /\ mpc[m] = "wait_finish"
    /\ WaitOnClientFinishReturns
    /\ mpc' = [mpc EXCEPT ![m] = "sample2"]
    /\ UNCHANGED <<nonDriverVars, flow_test, plugins, exitStatus, nmon, dpc, called,
                   spc, cpos, ticket, sync, runHist>>

\* stat: the second run_ethtool_cmd() and the return
StatSample2(m) ==
    /\ RunLive
    /\ mpc[m] = "sample2"
    /\ mpc' = [mpc EXCEPT ![m] = "done"]
    /\ runHist' = [runHist EXCEPT !.combined = @ \cup {m}]
    /\ UNCHANGED <<nonDriverVars, flow_test, plugins, exitStatus, nmon, dpc, called,
                   spc, cpos, ticket, sync>>

RunNext ==
    \/ RunConstruct
    \/ RunReset
    \/ CallBegin
    \/ \E external, exists, applyOk, waitOk \in BOOLEAN :
          SetupPod(external, exists, applyOk, waitOk)
    \/ \E found, rcOk \in BOOLEAN : ConfirmPoll(found, rcOk)
    \/ \E ok \in BOOLEAN : SetupReturn(ok)
    \/ WaitOnServerAlive
    \/ RunReturn
    \/ WaitOnClientFinish
    \/ StopReturn
    \/ \E has \in BOOLEAN : OutputReturn(has)
    \/ \E pre \in OutArgs : \E has \in BOOLEAN : ClientOutputOn(pre, has)
    \/ ServerThreadEnds
    \/ \E p \in ThreadIds : BarrierArrive(p)
    \/ \E p \in ThreadIds : BarrierPass(p)
    \/ ClientRunOc
    \/ ClientSetFinished
    \/ ClientReturn
    \/ \E m \in PartyIds : \E early \in BOOLEAN : StatExtractVfRep(m, early)
    \/ \E m \in PartyIds : \E success1 \in BOOLEAN : \E returncode \in {0, 1} :
          StatSample1(m, success1, returncode)
    \/ \E m \in PartyIds : StatWaitOnClientFinish(m)
    \/ \E m \in PartyIds : StatSample2(m)

\* no run is under way
RunIdle ==
    /\ nmon = 0
    /\ dpc = DriverStart
    /\ called = [p \in PartyIds |-> NotCalled]
    /\ spc = "unborn"
    /\ cpos = 0
    /\ mpc = [p \in PartyIds |-> "unborn"]
    /\ ticket = [p \in ThreadIds |-> 0]
    /\ sync = Reset(0)
    /\ runHist = RunHistInit

(* ------------------- one run with the power monitors ------------------- *)
\* servers + clients + monitors of a run with the measure_power plugin: the
\* plugin adds one monitor for the server's node and one for the client's
PowerRoles == <<"server", "client", "monitor", "monitor">>
PowerIds == DOMAIN PowerRoles
PowerThreads == {p \in PowerIds : PowerRoles[p] # "server"}

\* the iteration count of a monitor is followed up to MaxSamples
MaxSamples == 2

\* the driver's steps: the reset, then one loop over the participants per
\* phase, with the two waits between them
PowerSteps ==
    <<"reset", "start_setup", "wait_on_server_alive", "start_task",
      "wait_on_client_finish", "finish_task", "aggregate_output">>

PInstrPower == IF pwd.step \in DOMAIN PowerSteps THEN PowerSteps[pwd.step] ELSE "none"

PowerInit ==
    /\ pwd = [step |-> 1, idx |-> 1, err |-> NoError]
    /\ pwt = [p \in PowerThreads |-> [pc |-> "unborn", tk |-> 0, iter |-> 0]]
    /\ pwr = [p \in PowerIds |->
                [op |-> "none", stored |-> NoRes, result |-> NoRes,
                 cancelled |-> FALSE]]

PowerIdle == PowerInit

PowerLive == ~exitStatus.exited /\ pwd.err = NoError

\* the run is over: the driver has come through all its steps
PowerDone == pwd.step > Len(PowerSteps)

PowerNextPos ==
    IF pwd.idx < Len(PowerRoles)
    THEN [pwd EXCEPT !.idx = @ + 1]
    ELSE [pwd EXCEPT !.step = @ + 1, !.idx = 1]

\* SyncManager.reset(len(clients) + len(monitors))
PowerReset ==
    /\ PowerLive
    /\ PInstrPower = "reset"
    /\ sync' = Reset(Cardinality(PowerThreads))
    /\ pwd' = [pwd EXCEPT !.step = @ + 1]
    /\ UNCHANGED <<nonPowerVars, flow_test, plugins, exitStatus, pwt, pwr>>

\* the setup of the next participant; every command succeeds, and the
\* server's wait_ready sets the server-alive latch
PowerStartSetup ==
    /\ PowerLive
    /\ PInstrPower = "start_setup"
    /\ sync' = (IF PowerRoles[pwd.idx] = "server" /\ ~ConfirmExits([rcOk |-> TRUE])
                THEN SetServerAlive(sync) ELSE sync)
    /\ pwd' = PowerNextPos
    /\ UNCHANGED <<nonPowerVars, flow_test, plugins, exitStatus, pwt, pwr>>

\* the driver waits for the server-alive latch
PowerWaitOnServerAlive ==
    /\ PowerLive
    /\ PInstrPower = "wait_on_server_alive"
    /\ WaitOnServerAliveReturns
    /\ pwd' = [pwd EXCEPT !.step = @ + 1]
    /\ UNCHANGED <<nonPowerVars, flow_test, plugins, exitStatus, sync, pwt, pwr>>

\* Task.start_task() of the next participant: the operation is created and
\* started, which spawns its thread; the server has no task operation
PowerStartTask ==
    /\ PowerLive
    /\ PInstrPower = "start_task"
    /\ LET p == pwd.idx IN
       IF pwr[p].op # "none"
       THEN /\ pwd' = [pwd EXCEPT !.err = "AssertionError"]
            /\ UNCHANGED <<pwt, pwr>>
       ELSE /\ pwd' = PowerNextPos
            /\ IF p \in PowerThreads
               THEN /\ pwr' = [pwr EXCEPT ![p].op = "running"]
                    /\ pwt' = [pwt EXCEPT ![p].pc = "barrier"]
               ELSE UNCHANGED <<pwt, pwr>>
    /\ UNCHANGED <<nonPowerVars, flow_test, plugins, exitStatus, sync>>

\* the driver waits for the client-finished latch
PowerWaitOnClientFinish ==
    /\ PowerLive
    /\ PInstrPower = "wait_on_client_finish"
    /\ sync.client_finished
    /\ pwd' = [pwd EXCEPT !.step = @ + 1]
    /\ UNCHANGED <<nonPowerVars, flow_test, plugins, exitStatus, sync, pwt, pwr>>

\* Task.finish_task() of the next participant: finish() joins the thread and
\* returns the intermediate result, or the failure Output when there is none
PowerFinishTask ==
    /\ PowerLive
    /\ PInstrPower = "finish_task"
    /\ LET p == pwd.idx IN
       IF pwr[p].op = "none"
       THEN /\ pwd' = PowerNextPos
            /\ UNCHANGED pwr
       ELSE IF pwr[p].result # NoRes \/ pwr[p].op # "running"
       THEN /\ pwd' = [pwd EXCEPT !.err = "AssertionError"]
            /\ UNCHANGED pwr
       ELSE /\ pwt[p].pc = "dead"
            /\ pwd' = PowerNextPos
            /\ pwr' = [pwr EXCEPT ![p].op = "stopped",
                          ![p].result = IF pwr[p].stored = NoRes
                                        THEN Res("base", p) ELSE pwr[p].stored]
    /\ UNCHANGED <<nonPowerVars, flow_test, plugins, exitStatus, sync, pwt>>

\* Task.aggregate_output(out) of the next participant
PowerAggregateOutput ==
    /\ PowerLive
    /\ PInstrPower = "aggregate_output"
    /\ LET p == pwd.idx
           result == pwr[p].result
           noop == result = NoRes \/ ~IsAggregatableOutput(result)
           chk == PrimarySlotCheck(result, flow_test)
       IN
       IF noop
       THEN /\ pwd' = PowerNextPos
            /\ UNCHANGED <<flow_test, plugins>>
       ELSE IF chk # "ok"
       THEN /\ pwd' = [pwd EXCEPT !.err = chk]
            /\ UNCHANGED <<flow_test, plugins>>
       ELSE /\ pwd' = PowerNextPos
            /\ flow_test' = (IF IsFlowTestOutput(result) THEN result ELSE flow_test)
            /\ plugins' = (IF IsPluginOutput(result)
                           THEN Append(plugins, result) ELSE plugins)
    /\ UNCHANGED <<nonPowerVars, exitStatus, sync, pwt, pwr>>

\* a thread arrives at the start barrier
PowerBarrierArrive(p) ==
    /\ ~exitStatus.exited
    /\ pwt[p].pc = "barrier"
    /\ sync' = [sync EXCEPT !.arrived = @ + 1]
    /\ pwt' = [pwt EXCEPT ![p].pc = "waiting", ![p].tk = sync.arrived + 1]
    /\ UNCHANGED <<nonPowerVars, flow_test, plugins, exitStatus, pwd, pwr>>

\* a thread leaves the start barrier: the client goes on to its command, a
\* monitor to its sampling loop with iteration = 0
PowerBarrierPass(p) ==
    /\ ~exitStatus.exited
    /\ pwt[p].pc = "waiting"
    /\ BarrierOpen(pwt[p].tk)
    /\ pwt' = [pwt EXCEPT ![p].pc =
                  IF PowerRoles[p] = "client" THEN "command" ELSE "loop"]
    /\ UNCHANGED <<nonPowerVars, flow_test, plugins, exitStatus, sync, pwd, pwr>>

\* the client's command returns
PowerClientCommand(p) ==
    /\ ~exitStatus.exited
    /\ pwt[p].pc = "command"
    /\ pwt' = [pwt EXCEPT ![p].pc = "set"]
    /\ UNCHANGED <<nonPowerVars, flow_test, plugins, exitStatus, sync, pwd, pwr>>

\* the client sets the client-finished latch
PowerClientSetFinished(p) ==
    /\ ~exitStatus.exited
    /\ pwt[p].pc = "set"
    /\ sync' = [sync EXCEPT !.client_finished = TRUE]
    /\ pwt' = [pwt EXCEPT ![p].pc = "store"]
    /\ UNCHANGED <<nonPowerVars, flow_test, plugins, exitStatus, pwd, pwr>>

\* a monitor evaluates "while not event_client_finished.is_set()"
PowerLoopTest(p) ==
    /\ ~exitStatus.exited
    /\ pwt[p].pc = "loop"
    /\ pwt' = [pwt EXCEPT ![p].pc =
                  IF sync.client_finished THEN "output" ELSE "sample"]
    /\ UNCHANGED <<nonPowerVars, flow_test, plugins, exitStatus, sync, pwd, pwr>>

\* a monitor takes one sample: the command, iteration += 1, the sleep
PowerSample(p) ==
    /\ ~exitStatus.exited
    /\ pwt[p].pc = "sample"
    /\ pwt' = [pwt EXCEPT ![p].pc = "loop",
                          ![p].iter = IF @ < MaxSamples THEN @ + 1 ELSE @]
    /\ UNCHANGED <<nonPowerVars, flow_test, plugins, exitStatus, sync, pwd, pwr>>

\* total_pwr / iteration: the value, or the exception the division raises
Average(iteration) == IF iteration = 0 THEN "ZeroDivisionError" ELSE "value"

\* a monitor builds its PluginOutput after the loop; an exception of the
\* thread action is caught in _run_thread_action, which ends the process
PowerOutput(p) ==
    /\ ~exitStatus.exited
    /\ pwt[p].pc = "output"
    /\ IF Average(pwt[p].iter) = "ZeroDivisionError"
       THEN /\ exitStatus' = Exited(SysExitArg)
            /\ UNCHANGED pwt
       ELSE /\ pwt' = [pwt EXCEPT ![p].pc = "store"]
            /\ UNCHANGED exitStatus
    /\ UNCHANGED <<nonPowerVars, flow_test, plugins, sync, pwd, pwr>>

\* _run_thread_action stores the result of the thread action; the thread ends
PowerStore(p) ==
    /\ ~exitStatus.exited
    /\ pwt[p].pc = "store"
    /\ pwt' = [pwt EXCEPT ![p].pc = "dead"]
    /\ pwr' = [pwr EXCEPT ![p].stored =
                  Res(IF PowerRoles[p] = "client" THEN "flow" ELSE "plugin", p)]
    /\ UNCHANGED <<nonPowerVars, flow_test, plugins, exitStatus, sync, pwd>>

\* the power monitors of the run
PowerMonitors == {p \in PowerThreads : PowerRoles[p] = "monitor"}

\* the TaskOperation of a power monitor is made from a log name and a thread
\* action: its cancel_action is None
MonitorCancelAction == FALSE

\* finish() of a monitor's operation made without cancel action, when
\* th.join(timeout) returns with the thread alive: nothing is cancelled, the
\* state stays STOPPING and RuntimeError goes to the driver
PowerFinishTimesOut ==
    /\ PowerLive
    /\ PInstrPower = "finish_task"
    /\ ~MonitorCancelAction
    /\ LET p == pwd.idx IN
       /\ p \in PowerMonitors
       /\ pwr[p].op = "running" /\ pwr[p].result = NoRes
       /\ pwt[p].pc \notin {"unborn", "dead"}
       /\ pwr' = [pwr EXCEPT ![p].op = "stopping",
                             ![p].cancelled = MonitorCancelAction]
       /\ pwd' = [pwd EXCEPT !.err = "RuntimeError"]
    /\ UNCHANGED <<nonPowerVars, flow_test, plugins, exitStatus, sync, pwt>>

PowerNext ==
    \/ PowerReset
    \/ PowerStartSetup
    \/ PowerWaitOnServerAlive
    \/ PowerStartTask
    \/ PowerWaitOnClientFinish
    \/ PowerFinishTask
    \/ PowerAggregateOutput
    \/ \E p \in PowerThreads : PowerBarrierArrive(p)
    \/ \E p \in PowerThreads : PowerBarrierPass(p)
    \/ \E p \in PowerThreads : PowerClientCommand(p)
    \/ \E p \in PowerThreads : PowerClientSetFinished(p)
    \/ \E p \in PowerThreads : PowerLoopTest(p)
    \/ \E p \in PowerThreads : PowerSample(p)
    \/ \E p \in PowerThreads : PowerOutput(p)
    \/ \E p \in PowerThreads : PowerStore(p)

\* the steps of the driver, and the steps of one thread
PowerDriverStep ==
    \/ PowerReset \/ PowerStartSetup \/ PowerWaitOnServerAlive \/ PowerStartTask
    \/ PowerWaitOnClientFinish \/ PowerFinishTask \/ PowerAggregateOutput

PowerThreadStep(p) ==
    \/ PowerBarrierArrive(p) \/ PowerBarrierPass(p) \/ PowerClientCommand(p)
    \/ PowerClientSetFinished(p) \/ PowerLoopTest(p) \/ PowerSample(p)
    \/ PowerOutput(p) \/ PowerStore(p)

(* ---------------------------- specification ---------------------------- *)
OpNext ==
    \/ Construct
    \/ \E c \in Callers : CallStart(c)
    \/ \E c \in Callers : \E timeout \in Timeouts : CallFinish(c, timeout)
    \/ \E c \in Callers : AcquireLock(c)
    \/ \E c \in Callers : StartBody(c)
    \/ \E c \in Callers : AccessThreadBody(c)
    \/ \E c \in Callers : StartWaitReadyBody1(c)
    \/ \E c \in Callers : WaitReadyReturns(c)
    \/ \E c \in Callers : WaitReadyRaises(c)
    \/ \E c \in Callers : StartWaitReadyBody2(c)
    \/ \E t \in Threads : ThreadBegin(t)
    \/ \E t \in Threads : \E r \in RawResults : ThreadActionReturns(t, r)
    \/ \E t \in Threads : ThreadActionRaises(t)
    \/ \E t \in Threads : ThreadActionRaisesSystemExit(t)
    \/ \E t \in Threads : ThreadAcquire(t)
    \/ \E t \in Threads : ThreadStore(t)
    \/ \E t \in Threads : ThreadExit(t)
    \/ \E c \in Callers : FinishBody1(c)
    \/ \E c \in Callers : FinishJoin1(c)
    \/ \E c \in Callers : FinishCancel(c)
    \/ \E c \in Callers : FinishJoin2(c)
    \/ \E c \in Callers : FinishAlive2(c)
    \/ \E c \in Callers : FinishBody2(c)
    \/ \E c \in Callers : FinishCollect(c)

vars == <<opVars, aggVars, setupVars, driverVars, powerVars, exitStatus>>

Init == OpInit /\ AggIdle /\ SetupIdle /\ RunIdle /\ PowerIdle

\* one TaskOperation, its thread and its callers
Spec == Init /\ [][OpNext]_vars

\* the tasks of one run and their aggregator
InitAgg == AggInit /\ OpIdle /\ SetupIdle /\ RunIdle /\ PowerIdle
SpecAgg == InitAgg /\ [][AggNext]_vars

\* the construction of the tasks of one run and the services of its servers
InitSetup == SetupInit /\ OpIdle /\ AggIdle /\ RunIdle /\ PowerIdle
SpecSetup == InitSetup /\ [][SetupNext]_vars

\* one run of a test case: the driver, the participants' threads and the
\* SyncManager
InitRun == RunInit /\ OpIdle /\ AggIdle /\ SetupIdle /\ PowerIdle
SpecRun == InitRun /\ [][RunNext]_vars

\* one run with the power monitors; in SpecPowerFair the driver and every
\* thread keep being scheduled
InitPower == PowerInit /\ OpIdle /\ AggIdle /\ SetupIdle /\ RunIdle
SpecPower == InitPower /\ [][PowerNext]_vars
SpecPowerFair ==
    /\ SpecPower
    /\ WF_vars(PowerDriverStep)
    /\ \A p \in PowerThreads : WF_vars(PowerThreadStep(p))

\* the same run, in which the join of a monitor's thread may run into the
\* timeout of finish()
PowerTimeoutNext ==
    \/ PowerNext
    \/ PowerFinishTimesOut
SpecPowerTimeout == InitPower /\ [][PowerTimeoutNext]_vars

(* ------------------------------ properties ----------------------------- *)
Ended(c) == cpc[c] \in {"returned", "raised"}
FinishReturned(c) == cop[c] = "finish" /\ cpc[c] = "returned"

\* C1: under every interleaving of start(), its wait-ready step, the backing
\* thread and finish(), the state of the operation never moves backwards in
\* the order NEW < STARTING < RUNNING < STOPPING < STOPPED (so no state that
\* was left is entered again).
C1_StateNeverMovesBack == [][Rank(opState') >= Rank(opState)]_vars

\* the wait-ready step of start() is about to write the state after a
\* concurrent finish() has moved it on
C1_Witness ==
    \E c \in Callers : cpc[c] = "swr_body2" /\ opState \in {STOPPING, STOPPED}

\* C2: a finish() whose precondition check finds the state NEW, STOPPING or
\* STOPPED raises and returns no Output; a finish() called after a finish()
\* has returned never returns an Output, with or without a thread.
C2_FinishOutsideRunningRaises ==
    \A c \in Callers :
        cop[c] = "finish" =>
            /\ hist.obs[c].checked \in {ST_NEW, STOPPING, STOPPED} =>
                   /\ cpc[c] = "raised"
                   /\ cerr[c] = "AssertionError"
                   /\ cout[c] = NoneVal
            /\ hist.obs[c].priorFinish =>
                   /\ cpc[c] # "returned"
                   /\ cout[c] = NoneVal
                   /\ Ended(c) => cerr[c] = "AssertionError"

\* a second finish() on a collect-only operation has failed after the first
\* one returned
C2_Witness ==
    /\ ~cfg.thread_action
    /\ \E c \in Callers :
          /\ cop[c] = "finish"
          /\ hist.obs[c].priorFinish
          /\ cpc[c] = "raised"
          /\ hist.obs[c].checked = STOPPED

\* C3: a start() that finds the state other than NEW fails with an assertion
\* error, and none of its steps changes the state, creates a thread or calls
\* wait_ready.
C3_StartOutsideNewFails ==
    [][\A c \in Callers :
          (/\ cop[c] = "start"
           /\ cpc[c] \in {"start_lock", "start_body"}
           /\ cpc'[c] # cpc[c]
           /\ opState # ST_NEW)
          => /\ opState' = opState
             /\ opThread' = opThread
             /\ tpc' = tpc
             /\ hist'.spawned = hist.spawned
             /\ hist'.waitReadys = hist.waitReadys
             /\ cpc[c] = "start_body" =>
                    cpc'[c] = "raised" /\ cerr'[c] = "AssertionError"]_vars

\* a start() on a running operation has failed
C3_Witness ==
    \E c \in Callers :
        /\ cop[c] = "start"
        /\ cpc[c] = "raised"
        /\ cerr[c] = "AssertionError"
        /\ hist.obs[c].checked = RUNNING

\* C4: for an operation with only a collect action, no thread is ever created,
\* the collect action is called at most once, and a finish() that returns
\* returns the value of the collect action called without arguments, the one
\* call made.
C4_CollectOnly ==
    (constructed = "ok" /\ ~cfg.thread_action) =>
        /\ opThread = 0
        /\ hist.spawned = 0
        /\ \A t \in Threads : tpc[t] = "unborn"
        /\ hist.collects <= 1
        /\ \A c \in Callers :
              FinishReturned(c) => cout[c] = CollectAction0 /\ hist.collects = 1

\* a collect-only operation was started and finished
C4_Witness ==
    /\ ~cfg.thread_action
    /\ \E c \in Callers : FinishReturned(c)
    /\ \E c \in Callers : cop[c] = "start" /\ cpc[c] = "returned"

\* C5: finish() never returns an Output while a thread of the operation is
\* alive; a finish() that passed its precondition and ended while the thread
\* action had not returned raised RuntimeError; and a finish() that raised
\* RuntimeError on an operation with a cancel action called it first.
C5_NoOutputWhileThreadAlive ==
    \A c \in Callers :
        cop[c] = "finish" =>
            /\ cpc[c] = "returned" => \A t \in Threads : ~IsAlive(t)
            /\ (/\ Ended(c)
                /\ hist.obs[c].checked \in {STARTING, RUNNING}
                /\ \E t \in Threads : tpc[t] = "action")
               => cpc[c] = "raised" /\ cerr[c] = "RuntimeError"
            /\ (cpc[c] = "raised" /\ cerr[c] = "RuntimeError"
                /\ cfg.cancel_action)
               => hist.obs[c].cancels = 1 /\ hist.obs[c].joins = 1

\* finish() has cancelled a thread whose action does not return, and raised
C5_Witness ==
    /\ cfg.cancel_action
    /\ \E c \in Callers :
          /\ cop[c] = "finish"
          /\ cerr[c] = "RuntimeError"
          /\ hist.obs[c].cancels = 1
    /\ \E t \in Threads : tpc[t] = "action"

\* C6: at most one thread is created for an operation, the thread action is
\* executed at most once, and the intermediate result is written at most
\* once, by a thread that holds the operation's lock.
C6_ThreadActionOnce ==
    /\ [](hist.spawned <= 1 /\ hist.actionRuns <= 1 /\ hist.writes <= 1)
    /\ [][opResult' # opResult =>
             \E t \in Threads : opLock = ThreadId(t) /\ tpc[t] = "store"]_vars

\* the result was written while start() and finish() both went through
\* access_thread
C6_Witness ==
    /\ hist.writes = 1
    /\ \E c1, c2 \in Callers :
          /\ cop[c1] = "start" /\ cpc[c1] = "returned"
          /\ cop[c2] = "finish" /\ cpc[c2] = "returned"

\* C7: once a thread action has raised an exception, the process is
\* terminated: no intermediate result is stored and no finish() has returned
\* an Output.
C7_ThreadExceptionExits ==
    hist.actionRaised =>
        /\ ~procAlive
        /\ opResult = Unset
        /\ \A c \in Callers : ~FinishReturned(c)

\* C8: construction fails exactly when neither a thread action nor a collect
\* action is given or a cancel action is given without a thread action; a
\* failed construction yields no operation (no call is ever made on it), and
\* every constructed operation has a thread or a collect action, and a cancel
\* action only with a thread action.
C8_ConstructionValidated ==
    /\ constructed = "ok" =>
           /\ cfg.thread_action \/ cfg.collect_action
           /\ cfg.cancel_action => cfg.thread_action
    /\ constructed = "failed" =>
           /\ (~cfg.thread_action /\ ~cfg.collect_action)
              \/ (cfg.cancel_action /\ ~cfg.thread_action)
           /\ ncalls = 0
           /\ hist.spawned = 0
    /\ constructed = "pending" => ncalls = 0

\* construction with a cancel action, a collect action and no thread action
\* has failed
C8_Witness ==
    /\ constructed = "failed"
    /\ cfg.cancel_action /\ cfg.collect_action /\ ~cfg.thread_action

\* C9: when finish() returns on a thread-backed operation whose thread stored
\* r, the Output is collect_action(r), with the collect action called exactly
\* once, if a collect action is configured, and r itself, with no collect
\* call, otherwise.
C9_FinishReturnsCollected ==
    \A c \in Callers :
        (FinishReturned(c) /\ cfg.thread_action /\ opResult # Unset) =>
            IF cfg.collect_action
            THEN cout[c] = CollectAction1(opResult) /\ hist.collects = 1
            ELSE cout[c] = opResult /\ hist.collects = 0

\* finish() has returned the collected form of the second payload
C9_Witness ==
    /\ cfg.thread_action /\ cfg.collect_action
    /\ opResult = Val("raw", NumResults, TRUE)
    /\ \E c \in Callers : FinishReturned(c)

\* C10: the primary slot of an aggregator is written at most once; an
\* aggregate_output call of a task that holds a flow-test result, made when
\* the slot is occupied, raises RuntimeError and leaves the slot and the list
\* of plugin results as they were.
C10_PrimarySlotWrittenOnce ==
    /\ aggHist.flowWrites <= 1
    /\ (/\ lastCall.call = "aggregate_output"
        /\ IsFlowTestOutput(taskResult[lastCall.task])
        /\ lastCall.preFlow # NoRes)
       => /\ lastCall.err = "RuntimeError"
          /\ flow_test = lastCall.preFlow
          /\ plugins = lastCall.prePlugins

\* a second task with a flow-test result was aggregated after the first
C10_Witness ==
    /\ lastCall.call = "aggregate_output"
    /\ IsFlowTestOutput(taskResult[lastCall.task])
    /\ lastCall.preFlow # NoRes
    /\ lastCall.preFlow.src # lastCall.task

\* C11: aggregate_output on a plugin task holding a secondary result appends
\* that result as the last entry of the secondary list and leaves the primary
\* slot alone; the list changes in no other way, so N calls on N distinct
\* plugin tasks leave N entries in the order of the calls.
C11_SecondaryAppendedInCallOrder ==
    /\ [](lastCall.call = "aggregate_output"
            /\ taskResult[lastCall.task].kind = "plugin"
            /\ taskCls[lastCall.task].overrides
          => /\ lastCall.err = NoError
             /\ plugins = Append(lastCall.prePlugins, taskResult[lastCall.task])
             /\ flow_test = lastCall.preFlow)
    /\ [][plugins' # plugins
            => /\ lastCall'.call = "aggregate_output"
               /\ plugins' = Append(plugins, taskResult[lastCall'.task])]_vars

\* two distinct plugin tasks were aggregated one after the other
C11_Witness ==
    /\ Len(plugins) = 2
    /\ plugins[1].src # plugins[2].src
    /\ lastCall.call = "aggregate_output"
    /\ lastCall.task = plugins[2].src

\* C12 as stated: a secondary result raises without an override and is
\* delegated with one; a primary result of a class without override is
\* written to the primary slot and the call does not raise.
C12_OverrideRequired ==
    lastCall.call = "aggregate_output" =>
        LET t == lastCall.task
            result == taskResult[t]
        IN  /\ result.kind = "plugin" /\ ~taskCls[t].overrides
                => lastCall.err = "RuntimeError"
            /\ result.kind = "plugin" /\ taskCls[t].overrides
                => /\ lastCall.err = NoError
                   /\ plugins = Append(lastCall.prePlugins, result)
            /\ result.kind = "flow" /\ ~taskCls[t].overrides
                => /\ lastCall.err = NoError
                   /\ flow_test = result

\* C12 amended: as C12, but a primary result of a class without override is
\* written without raising only while the primary slot is empty; when the slot
\* is already set the call raises and the slot keeps its value.
C12_OverrideRequiredWhileSlotEmpty ==
    lastCall.call = "aggregate_output" =>
        LET t == lastCall.task
            result == taskResult[t]
        IN  /\ result.kind = "plugin" /\ ~taskCls[t].overrides
                => /\ lastCall.err = "RuntimeError"
                   /\ plugins = lastCall.prePlugins
            /\ result.kind = "plugin" /\ taskCls[t].overrides
                => /\ lastCall.err = NoError
                   /\ plugins = Append(lastCall.prePlugins, result)
            /\ result.kind = "flow" /\ ~taskCls[t].overrides
                => IF lastCall.preFlow = NoRes
                   THEN /\ lastCall.err = NoError
                        /\ flow_test = result
                        /\ plugins = lastCall.prePlugins
                   ELSE /\ lastCall.err = "RuntimeError"
                        /\ flow_test = lastCall.preFlow

\* a primary result of a class without override was aggregated while the
\* primary slot was already set, and the call raised
C12_Witness ==
    /\ lastCall.call = "aggregate_output"
    /\ taskResult[lastCall.task].kind = "flow"
    /\ ~taskCls[lastCall.task].overrides
    /\ lastCall.preFlow # NoRes
    /\ lastCall.err = "RuntimeError"

\* C13: aggregate_output returns and leaves the primary slot and the
\* secondary list as they were when the task has no stored result or its
\* result is not aggregatable.
C13_NothingToCollect ==
    lastCall.call = "aggregate_output"
        /\ taskResult[lastCall.task].kind \in {"none", "base"}
    => /\ lastCall.err = NoError
       /\ flow_test = lastCall.preFlow
       /\ plugins = lastCall.prePlugins

\* a task holding a result that is not aggregatable was aggregated into a
\* record that is not empty
C13_Witness ==
    /\ lastCall.call = "aggregate_output"
    /\ taskResult[lastCall.task].kind = "base"
    /\ lastCall.preFlow # NoRes

\* C14: a task's result is assigned at most once: it is stored by a
\* finish_task() that finished the running operation; once stored, a further
\* finish_task() fails before it reaches the operation and the result and the
\* operation stay as they are; a task without operation never has a result.
C14_ResultAssignedOnce ==
    /\ [](\A t \in Tasks : taskOp[t] = "none" => taskResult[t] = NoRes)
    /\ [][\A t \in Tasks :
            /\ taskResult[t] # NoRes
                => /\ taskResult'[t] = taskResult[t]
                   /\ taskOp'[t] = taskOp[t]
            /\ taskResult[t] # NoRes /\ lastCall' # lastCall
                 /\ lastCall'.task = t /\ lastCall'.call = "finish_task"
                => /\ lastCall'.err = "AssertionError"
                   /\ ~lastCall'.opFinish
            /\ taskResult[t] = NoRes /\ taskResult'[t] # NoRes
                => /\ lastCall'.task = t /\ lastCall'.call = "finish_task"
                   /\ lastCall'.err = NoError /\ lastCall'.opFinish
                   /\ taskOp[t] = "running" /\ taskOp'[t] = "stopped"
                   /\ taskResult'[t] = Res(taskCls[t].opKind, t)]_vars

\* finish_task() was called again on a task that holds its result
C14_Witness ==
    /\ lastCall.call = "finish_task"
    /\ lastCall.err = "AssertionError"
    /\ ~lastCall.opFinish
    /\ taskResult[lastCall.task] # NoRes

\* C15: the construction of a task fails exactly when it is asked for a
\* non-tenant task while the cluster mode is single, so no non-tenant task
\* exists under the single-cluster mode.
C15_NoNonTenantTaskOnSingleCluster ==
    \A t \in Tasks :
        /\ taskMade[t] # "pending"
            => (taskMade[t] = "ValueError"
                    <=> (~taskTenant[t] /\ clusterMode = "SINGLE"))
        /\ clusterMode = "SINGLE" /\ taskMade[t] = "made" => taskTenant[t]

\* under the single-cluster mode one construction failed and another succeeded
C15_Witness ==
    /\ clusterMode = "SINGLE"
    /\ \E t, u \in Tasks : taskMade[t] = "ValueError" /\ taskMade[u] = "made"

\* C16: after a failed apply whose error text contains "already exists" the
\* process runs on and the next command is the query of that service; after
\* a failed apply with another error the process has ended with a nonzero
\* status, that apply is the last command, and no command follows an exit.
C16_AlreadyExistsTolerated ==
    /\ [](lastApply # NoApply /\ lastApply.result.returncode # 0 =>
            LET n == Len(svcLog)
                apply == SvcCmd(lastApply.task, lastApply.svc, "apply")
                get == SvcCmd(lastApply.task, lastApply.svc, "get")
            IN  IF lastApply.result.err = ErrAlreadyExists
                THEN /\ exitStatus = Running
                     /\ n >= 2 /\ svcLog[n - 1] = apply /\ svcLog[n] = get
                ELSE /\ exitStatus.exited /\ exitStatus.status # 0
                     /\ n >= 1 /\ svcLog[n] = apply)
    /\ [][exitStatus.exited
            => svcLog' = svcLog /\ exitStatus' = exitStatus]_vars

\* both outcomes were seen in one run: a tolerated "already exists" for the
\* first service, then a fatal error for the second
C16_Witness ==
    /\ exitStatus.exited
    /\ lastApply.svc = "node_port"
    /\ Len(svcLog) >= 3
    /\ svcLog[Len(svcLog) - 1].cmd = "get"
    /\ \E t \in Tasks : initPc[t] = "cluster_ip"

\* the driver's calls on a participant, in the order _run_tests makes them
CallRank(c) ==
    CASE c = "none" -> 0 [] c = "setup" -> 1 [] c = "run" -> 2
      [] c = "stop" -> 3 [] c = "output" -> 4
Begun(p, c) == CallRank(called[p].call) >= CallRank(c)
Done(p, c) ==
    \/ CallRank(called[p].call) > CallRank(c)
    \/ called[p].call = c /\ called[p].returned
InRun(p) == p \in PartyIds /\ p <= LastParty

\* C17: when run() has begun on some participant, setup() has returned on
\* every participant; when stop() has begun on some, run() has returned on
\* every one; when output() has begun on some, stop() has returned on every one.
C17_PhasesInLockstep ==
    \A p, q \in PartyIds : InRun(p) /\ InRun(q) =>
        /\ Begun(p, "run") => Done(q, "setup")
        /\ Begun(p, "stop") => Done(q, "run")
        /\ Begun(p, "output") => Done(q, "stop")

\* a run with all its monitors has come to the last output() while the other
\* participants' output() has returned
C17_Witness ==
    /\ nmon = NumMonitors
    /\ called[LastParty] = [call |-> "output", returned |-> FALSE]
    /\ \A q \in PartyIds : InRun(q) /\ q # LastParty => Done(q, "output")

\* C18: when run() has begun on a client or a monitor, the server-alive latch
\* is set and the driver has come through wait_on_server_alive() in this run.
C18_RunAfterServerAlive ==
    \A p \in PartyIds :
        InRun(p) /\ Role(p) \in {"client", "monitor"} /\ Begun(p, "run")
        => sync.server_alive /\ runHist.aliveWaited

\* run() has begun on a monitor of a run whose latches were set when it began
C18_Witness ==
    \E p \in PartyIds :
        /\ InRun(p) /\ Role(p) = "monitor"
        /\ called[p] = [call |-> "run", returned |-> FALSE]

\* C19: the client-finished latch is set at most once in a run, by the client
\* thread after it has passed the barrier and its command has returned, and
\* it has been set once the client thread has returned; when stop() has begun
\* on some participant the latch is set.
C19_ClientFinishedSetOnce ==
    /\ runHist.finishSets <= 1
    /\ ~runHist.setEarly
    /\ cpos > Len(ClientSteps) => runHist.finishSets = 1
    /\ dpc.step > 0 /\ sync.client_finished => runHist.finishSets = 1
    /\ \A p \in PartyIds :
          InRun(p) /\ Begun(p, "stop")
          => sync.client_finished /\ runHist.finishSets = 1

\* the driver has begun to stop the first participant while the client
\* thread, having set the latch, has not returned yet
C19_Witness ==
    /\ \E p \in PartyIds : called[p] = [call |-> "stop", returned |-> FALSE]
    /\ ClientInstr = "return"
    /\ runHist.finishSets = 1

\* C20: the barrier of a run has size len(clients) + len(monitors); the
\* client's command and a monitor's first sample are run only when that many
\* callers have arrived; once they have, each of the first N callers has
\* passed or, while the process lives, can pass; a caller that arrives after
\* them never passes.
C20_BarrierReleasesAllAtOnce ==
    /\ dpc.step > 0 => sync.n = NumClients + nmon
    /\ ~runHist.cmdEarly
    /\ ~runHist.sampleEarly
    /\ \A p \in ThreadIds :
          /\ p \in runHist.passed
                => ticket[p] \in 1..sync.n /\ sync.arrived >= sync.n
          /\ ticket[p] \in 1..sync.n /\ sync.arrived >= sync.n /\ RunLive
                => p \in runHist.passed \/ ENABLED BarrierPass(p)
          /\ ticket[p] > sync.n => p \notin runHist.passed

\* the client and a monitor have passed the barrier, the client's command
\* has run, and a further caller is waiting at the barrier
C20_Witness ==
    /\ sync.n > NumClients
    /\ Cardinality(runHist.passed) = sync.n
    /\ runHist.cmdDone
    /\ \E p \in ThreadIds : ticket[p] = sync.n + 1 /\ p \notin runHist.passed

\* C21: SyncManager.reset() is called once in a _run(), with
\* len(clients) + len(monitors), after the run's tasks are constructed and
\* before setup() is called on any of them; after it a latch is set only when
\* this run's server or client has set it, whatever the run before left set.
C21_ResetOncePerRun ==
    /\ runHist.resets <= 1
    /\ runHist.resets = 1 => dpc.made
    /\ dpc.step > 0 => runHist.resets = 1 /\ sync.n = NumClients + nmon
    /\ \A p \in PartyIds : called[p] # NotCalled => runHist.resets = 1
    /\ runHist.resets = 1 =>
          /\ sync.server_alive =>
                \E p \in PartyIds : Role(p) = "server" /\ Done(p, "setup")
          /\ sync.client_finished => runHist.finishSets = 1
    /\ runHist.aliveWaited =>
          \E p \in PartyIds : Role(p) = "server" /\ Done(p, "setup")
    /\ (DInstr \in {"stop", "output"} \/ \E m \in PartyIds : mpc[m] = "sample2")
          => runHist.finishSets = 1

\* a run that found both latches set has come to its stop loop, and a monitor
\* of it has come through wait_on_client_finish()
C21_Witness ==
    /\ runHist.stale = {"server_alive", "client_finished"}
    /\ DInstr = "stop"
    /\ \E m \in PartyIds : mpc[m] = "sample2"

\* C22: when a command of the server's setup_pod() fails, the process exits
\* with a nonzero status inside the server's setup(): the server's thread is
\* not started, no call has been made on a client or a monitor and none of
\* their threads exists, the aggregated output is empty, and nothing of this
\* ever changes after the exit.
C22_ServerSetupFailureAborts ==
    /\ [](\A s \in PartyIds : Role(s) = "server" /\ runHist.podFailed = s =>
            /\ exitStatus.exited /\ exitStatus.status # 0
            /\ called[s] = [call |-> "setup", returned |-> FALSE]
            /\ spc = "unborn"
            /\ \A p \in PartyIds : Role(p) # "server" => called[p] = NotCalled
            /\ cpos = 0
            /\ \A p \in PartyIds : mpc[p] = "unborn"
            /\ flow_test = NoRes /\ plugins = <<>>)
    /\ [][exitStatus.exited =>
            /\ called' = called /\ dpc' = dpc /\ spc' = spc /\ cpos' = cpos
            /\ mpc' = mpc /\ flow_test' = flow_test /\ plugins' = plugins]_vars

\* the wait for the server's pod has failed in a run with all its monitors
C22_Witness ==
    /\ exitStatus.exited
    /\ nmon = NumMonitors
    /\ \E s \in PartyIds : Role(s) = "server" /\ runHist.podFailed = s
    /\ dpc.incall /\ ~dpc.pod

C25_WaitReadyResultDiscarded ==
    [][\A c \in Callers :
          (/\ cfg.wait_ready
           /\ cpc[c] = "swr_body2"
           /\ cpc'[c] # cpc[c]
           /\ opState \in {STOPPING, STOPPED})
          => /\ opState' = opState
             /\ cpc'[c] = "returned"
             /\ cerr'[c] = NoError]_vars

\* start() has returned after its wait_ready, the state is past RUNNING, and
\* the finish() that moved it found the state STARTING
C25_Witness ==
    /\ cfg.wait_ready
    /\ hist.waitReadys = 1
    /\ opState \in {STOPPING, STOPPED}
    /\ \E c1, c2 \in Callers :
          /\ cop[c1] = "start" /\ cpc[c1] = "returned"
          /\ cop[c2] = "finish" /\ hist.obs[c2].checked = STARTING

\* C26: when finish() has moved the state to STOPPING or STOPPED before the
\* wait-ready step of start() looks at it, start() returns without an
\* exception, wait_ready is not called and the state stays as it is.
C26_StartToleratesEarlierFinish ==
    [][\A c \in Callers :
          (/\ cop[c] = "start"
           /\ cpc[c] = "swr_body1"
           /\ cpc'[c] # cpc[c]
           /\ opState \in {STOPPING, STOPPED})
          => /\ cpc'[c] = "returned"
             /\ cerr'[c] = NoError
             /\ opState' = opState
             /\ hist'.waitReadys = hist.waitReadys]_vars

C28_RunningOnlyAfterWaitReady ==
    /\ [](cfg.wait_ready /\ opState = RUNNING => hist.waitReadyDone = 1)
    /\ [](hist.waitReadys <= 1 /\ hist.waitReadyDone <= hist.waitReadys)
    /\ [][hist'.waitReadys > hist.waitReadys =>
            /\ \E c \in Callers :
                  /\ cop[c] = "start"
                  /\ cpc'[c] = "swr_wait_ready" /\ cpc[c] # "swr_wait_ready"
            /\ cfg.thread_action => opThread # 0 /\ hist.spawned = 1]_vars

\* start() has returned on an operation with a thread action and a
\* wait_ready; the wait_ready has returned and the operation is RUNNING
C28_Witness ==
    /\ cfg.wait_ready /\ cfg.thread_action
    /\ opState = RUNNING
    /\ hist.waitReadyDone = 1
    /\ opThread # 0
    /\ \E c \in Callers : cop[c] = "start" /\ cpc[c] = "returned"

\* C29: when the thread of an operation has terminated without storing an
\* intermediate result, no finish() on it has returned an Output.
C29_NoOutputWithoutThreadResult ==
    \A c \in Callers :
       (/\ FinishReturned(c)
        /\ cfg.thread_action
        /\ opThread # 0 /\ ~IsAlive(opThread)
        /\ opResult = Unset)
       => ~cout[c].isOutput

\* C30: after the reset of a run the server-alive latch is set only if
\* confirm_server_alive() has seen the server alive (its name in a poll
\* result, or a successful readiness wait); when confirm_server_alive() ends
\* without having seen it, the latch stays unset and the process exits.
C30_LatchOnlyIfObservedAlive ==
    /\ [](runHist.resets >= 1 /\ sync.server_alive => runHist.observed)
    /\ [][(/\ DInstr = "setup" /\ Role(dpc.idx) = "server"
            /\ dpc.incall /\ dpc.pod
            /\ (dpc'.idx # dpc.idx \/ exitStatus' # exitStatus)
            /\ ~runHist'.observed)
           => exitStatus'.exited /\ ~sync'.server_alive]_vars

\* C23: in a run with one server, one client and two power monitors in which
\* every command succeeds, no thread action raises, the driver comes to the
\* end of the run, and the aggregated output then holds one primary and two
\* secondary results.
C23_RunTerminatesWithResults ==
    /\ [](~exitStatus.exited /\ pwd.err = NoError)
    /\ [](PowerDone => flow_test # NoRes /\ Len(plugins) = 2)
    /\ <>PowerDone

\* C31 as stated: with a persistent server the thread action and the cancel
\* action of the setup operation run no command, in every connection mode,
\* and the thread action returns a successful Output.
C31_PersistentRunsNothing ==
    lastCmd.action # "none" /\ lastCmd.persistent
       => /\ lastCmd.ran = "none"
          /\ lastCmd.action = "thread_action" => lastCmd.success

\* C31 amended: with a persistent server the two actions run no command in
\* the connection modes other than EXTERNAL_IP; in EXTERNAL_IP they run their
\* command on the local host as without the flag; the thread action returns
\* a successful Output in every mode.
C31_PersistentRunsNothingInCluster ==
    lastCmd.action # "none" /\ lastCmd.persistent
       => /\ lastCmd.mode # "EXTERNAL_IP" => lastCmd.ran = "none"
          /\ lastCmd.mode = "EXTERNAL_IP" => lastCmd.ran = "local"
          /\ lastCmd.action = "thread_action" => lastCmd.success

\* the cancel action of a persistent server in a cluster-internal connection
\* mode has been called and has run nothing
C31_Witness ==
    /\ lastCmd.action = "cancel_action" /\ lastCmd.persistent
    /\ lastCmd.mode = "NODE_PORT_IP"
    /\ lastCmd.ran = "none"

\* C32: a power monitor takes no sample before it has passed the start
\* barrier; a loop test made while client-finished is not set goes on to a
\* sample; no sample is begun once client-finished is set, and the monitor
\* that has left its loop returns its Output; the loop comes to an end once
\* client-finished is set.
C32_SamplesBetweenBarrierAndFinish ==
    /\ [](\A p \in PowerMonitors :
            pwt[p].iter > 0 \/ pwt[p].pc \in {"loop", "sample", "output"}
               => BarrierOpen(pwt[p].tk))
    /\ [][\A p \in PowerMonitors :
            /\ pwt[p].pc = "loop" /\ pwt'[p] # pwt[p] /\ ~sync.client_finished
                  => pwt'[p].pc = "sample"
            /\ pwt'[p].pc = "sample" /\ pwt[p].pc # "sample"
                  => ~sync.client_finished
            /\ pwt'[p].iter # pwt[p].iter => pwt[p].pc = "sample"
            /\ pwt[p].pc = "output"
                 /\ (pwt'[p] # pwt[p] \/ exitStatus' # exitStatus)
                  => pwt'[p].pc = "store" /\ ~exitStatus'.exited]_vars
    /\ \A p \in PowerMonitors :
          (sync.client_finished /\ pwt[p].pc \in {"loop", "sample"})
             ~> (pwt[p].pc \in {"store", "dead"})

\* C39: a power monitor whose sampling loop has ended has taken at least one
\* sample, and no monitor ends the process by raising from its thread action.
C39_AtLeastOneSample ==
    /\ \A p \in PowerMonitors :
          pwt[p].pc \in {"output", "store", "dead"} => pwt[p].iter >= 1
    /\ ~exitStatus.exited

\* C33: the operation of every power monitor has a cancel action: a finish()
\* that finds the monitor's thread alive requests the cancellation, and no
\* finish() of a monitor ends with the thread outliving the timeout.
C33_MonitorCancelledAtFinish ==
    [][\A p \in PowerMonitors :
         pwr[p].op = "running" /\ pwr'[p].op # "running"
              /\ pwt[p].pc \notin {"unborn", "dead"}
            => /\ pwr'[p].cancelled
               /\ pwd'.err # "RuntimeError"]_vars

\* C34: a validate-offload monitor whose first counter sample returned exit
\* code 0 has not returned before client-finished was set, and the result it
\* returns combines the first sample with a second one.
C34_SuccessfulSampleWaits ==
    \A m \in PartyIds :
       m \in runHist.ok1 /\ mpc[m] = "done"
          => sync.client_finished /\ m \in runHist.combined

\* C35: NetPerfClient.output writes the primary slot of the aggregator only
\* when the slot is empty; applied to an aggregator whose slot is occupied it
\* raises and the slot keeps its value.
C35_PrimarySlotNotOverwritten ==
    runHist.outCall.called /\ runHist.outCall.pre # NoRes
       => /\ runHist.outCall.err # NoError
          /\ runHist.outCall.post = runHist.outCall.pre

\* C36: a finish() that fails its state precondition leaves the operation as
\* it found it: the failing assertion changes neither the state nor the
\* thread nor the stored result, and the call has not created the thread; in
\* state NEW no thread exists.
C36_FailedFinishHasNoEffect ==
    /\ [](opState = ST_NEW => opThread = 0)
    /\ [][\A c \in Callers :
            cpc[c] \in {"fin_body1", "fin_body2"} /\ cpc'[c] = "raised"
               => /\ opState' = opState
                  /\ opThread' = opThread
                  /\ opResult' = opResult
                  /\ ~hist.obs[c].spawned]_vars

C38_ResultReadAfterThreadEnd ==
    /\ [](\A c \in Callers :
            cop[c] = "finish"
               /\ (cpc[c] \in {"fin_lock2", "fin_body2", "fin_collect", "returned"}
                     \/ cinter[c] # Unset \/ cresult[c] # NoneVal)
            => \A t \in Threads : ~IsAlive(t))
    /\ [][(\E c \in Callers : cinter'[c] # cinter[c] /\ cinter'[c] # Unset)
             \/ hist'.collects # hist.collects
             \/ hist'.finishReturned # hist.finishReturned
          => \A t \in Threads : ~IsAlive(t) /\ tpc'[t] = tpc[t]]_vars

\* finish() holds the result the thread stored, read after the thread ended,
\* and is about to pass it to the collect action
C38_Witness ==
    /\ cfg.thread_action /\ cfg.collect_action
    /\ opThread # 0 /\ tpc[opThread] = "dead"
    /\ opResult # Unset
    /\ \E c \in Callers :
          /\ cop[c] = "finish" /\ cpc[c] = "fin_collect"
          /\ cinter[c] = opResult

\* the step of caller c that ends a locked block
LockedStep(c) ==
    \/ StartBody(c) \/ AccessThreadBody(c) \/ StartWaitReadyBody1(c)
    \/ StartWaitReadyBody2(c) \/ FinishBody1(c) \/ FinishBody2(c)

\* C40: the lock of the operation is not held by a caller that is in
\* wait_ready, in a join, in the cancel action or in the collect action, nor
\* by a thread that is in the thread action; whoever holds the lock can take
\* its next step, and that step releases the lock.
C40_LockNotHeldAcrossCallbacks ==
    /\ [](\A c \in Callers :
            cpc[c] \in {"swr_wait_ready", "fin_join1", "fin_cancel", "fin_join2",
                        "fin_alive2", "fin_collect"}
               => ~Holds(c))
    /\ [](\A t \in Threads :
            tpc[t] \in {"begin", "action"} => opLock # ThreadId(t))
    /\ [](Live => /\ \A c \in Callers : Holds(c) => ENABLED LockedStep(c)
                  /\ \A t \in Threads :
                        opLock = ThreadId(t) => ENABLED ThreadStore(t))
    /\ [][opLock # NoOwner /\ opLock' # opLock => opLock' = NoOwner]_vars

\* start() is in wait_ready and the thread action runs while a concurrent
\* finish() has taken the lock, set STOPPING and gone on to its join
C40_Witness ==
    /\ opState = STOPPING
    /\ \E t \in Threads : tpc[t] = "action"
    /\ \E c1, c2 \in Callers :
          /\ cop[c1] = "start" /\ cpc[c1] = "swr_wait_ready"
          /\ cop[c2] = "finish" /\ cpc[c2] = "fin_join1"
          /\ hist.obs[c2].checked = STARTING

====
